---- MODULE Spec2Model ----
(***************************************************************************)
(* Model of the symptom-analysis and triage code of the gastro chatbot      *)
(* backend: the chat pipeline (emergencyDetectionMiddleware ->              *)
(* ChatController.sendMessage -> MedicalAIService.processMessage) and the   *)
(* two symptom searches of DiseaseController.                               *)
(*                                                                         *)
(* A JavaScript string is modelled as the sequence of its characters, each  *)
(* character a one-character TLA+ string, so that toLowerCase, trim,        *)
(* replace, split and includes are computed the way the code computes them. *)
(***************************************************************************)
EXTENDS Integers, Sequences, FiniteSets, TLC

VARIABLES
  pc,           \* position of the request being handled
  req,          \* the request being handled (body of the HTTP request)
  resp,         \* the HTTP response sent for it (status 0: none yet)
  stages,       \* pipeline stages the request has run so far, in order
  existing,     \* existingConversation read by sendMessage
  chatResponse, \* ChatResponse returned by medicalAI.processMessage
  conv,         \* the stored conversation of the session (conversation table)
  catalog,      \* the disease table rows (read-only reference data)
  scoredDiseases, \* the scored diseases of a search, before sort and slice
  previous,     \* what the same request was answered with the time before
  now,          \* Date.now(), in hours
  table,        \* the conversation table: the row of every session id
  calls,        \* the requests in flight, one for each connection
  sent,         \* the number of requests sent so far
  cleaned,      \* the last run of the cleanup job: its argument and result
  seededDiseases, \* names of the diseases handed to seedDiseaseSymptomRelations
  seededSymptoms, \* names of the symptoms handed to it
  seedAt,       \* its position: the relation and the symptom it is at
  createdRelations, \* the relations it has created, in order
  seedLog,      \* what it has logged with warn and error, in order
  chatStore,    \* the state of useChatStore
  chatError,    \* the error state of the useChat hook
  notifications, \* the notifications of useNotificationStore, in order
  isInitialized, \* the isInitialized state of the mounted ChatInterface
  startCalls,   \* the calls of startNewSession, in the order they were made
  historyCall,  \* the call of loadChatHistory, and how many were made
  submitted     \* the calls of sendMessage, in order, and what each did

\* the state of the handling of one request after the other
requestVars ==
  <<pc, req, resp, stages, existing, chatResponse, conv, catalog, scoredDiseases,
    previous>>

\* the state of the sessions and of the requests handled concurrently
sessionVars == <<now, table, calls, sent, cleaned>>

\* the state of the seeding of the disease-symptom relations
seedVars ==
  <<seededDiseases, seededSymptoms, seedAt, createdRelations, seedLog>>

\* the state of the chat of the frontend
chatVars ==
  <<chatStore, chatError, notifications, isInitialized, startCalls, historyCall,
    submitted>>

vars == <<requestVars, sessionVars, seedVars, chatVars>>

Min(a, b) == IF a < b THEN a ELSE b

(***************************************************************************)
(* Strings                                                                 *)
(***************************************************************************)
UPPER ==
  <<"A","B","C","D","E","F","G","H","I","J","K","L","M","N","O","P","Q","R","S","T","U","V","W","X","Y","Z","Á","É","Í","Ó","Ú","Ñ","Ü">>
LOWER ==
  <<"a","b","c","d","e","f","g","h","i","j","k","l","m","n","o","p","q","r","s","t","u","v","w","x","y","z","á","é","í","ó","ú","ñ","ü">>

\* String.prototype.toLowerCase, one character
LowerOf ==
  [c \in {UPPER[i] : i \in 1..Len(UPPER)} |->
     LOWER[CHOOSE i \in 1..Len(UPPER) : UPPER[i] = c]]

LowerChar(c) == IF c \in DOMAIN LowerOf THEN LowerOf[c] ELSE c

\* String.prototype.toLowerCase
toLowerCase(s) == [i \in 1..Len(s) |-> LowerChar(s[i])]

\* the characters the regular expression class \s matches (those the model uses)
WHITESPACE == {" ", "\t", "\n"}

\* String.prototype.includes: sub occurs in s as a contiguous substring
includes(s, sub) ==
  \/ Len(sub) = 0
  \/ \E i \in 0..(Len(s) - Len(sub)) :
       s[i + 1] = sub[1] /\ SubSeq(s, i + 1, i + Len(sub)) = sub

\* String.prototype.trim
trim(s) ==
  LET keep == {i \in 1..Len(s) : s[i] \notin WHITESPACE}
  IN  IF keep = {} THEN <<>>
      ELSE SubSeq(s, CHOOSE i \in keep : \A j \in keep : i <= j,
                     CHOOSE i \in keep : \A j \in keep : i >= j)

\* String.prototype.substring(0, n)
substring0(s, n) == SubSeq(s, 1, Min(Len(s), n))

\* the positions of s, in order
positions(s) == [i \in 1..Len(s) |-> i]

\* s.replace(/\s+/g, ' '): every run of whitespace becomes one space
collapseWhitespace(s) ==
  LET kept == SelectSeq(positions(s), LAMBDA i :
                ~(s[i] \in WHITESPACE /\ i > 1 /\ s[i - 1] \in WHITESPACE))
  IN  [k \in 1..Len(kept) |->
         IF s[kept[k]] \in WHITESPACE THEN " " ELSE s[kept[k]]]

\* s.split(/\s+/): the pieces between runs of whitespace, an empty piece
\* before a leading and after a trailing run ("" splits into one empty piece)
splitWhitespace(s) ==
  LET starts == SelectSeq(positions(s), LAMBDA i :
                  s[i] \notin WHITESPACE /\ (i = 1 \/ s[i - 1] \in WHITESPACE))
      wordEnd(i) == CHOOSE j \in i..Len(s) :
                      /\ \A k \in i..j : s[k] \notin WHITESPACE
                      /\ (j = Len(s) \/ s[j + 1] \in WHITESPACE)
      words == [k \in 1..Len(starts) |-> SubSeq(s, starts[k], wordEnd(starts[k]))]
  IN  IF s = <<>> THEN << <<>> >>
      ELSE (IF s[1] \in WHITESPACE THEN << <<>> >> ELSE <<>>)
           \o words
           \o (IF s[Len(s)] \in WHITESPACE THEN << <<>> >> ELSE <<>>)

Range(list) == {list[i] : i \in 1..Len(list)}

(***************************************************************************)
(* Keyword lists of the source                                             *)
(***************************************************************************)
\* MedicalAIService.CRITICAL_EMERGENCY_KEYWORDS
CRITICAL_EMERGENCY_KEYWORDS ==
  << <<"n","o"," ","p","u","e","d","o"," ","r","e","s","p","i","r","a","r">>,
     <<"d","o","l","o","r"," ","d","e"," ","p","e","c","h","o"," ","i","n","t","e","n","s","o">>,
     <<"s","a","n","g","r","a","d","o"," ","a","b","u","n","d","a","n","t","e">>,
     <<"v","ó","m","i","t","o"," ","c","o","n"," ","s","a","n","g","r","e">>,
     <<"h","e","c","e","s"," ","c","o","n"," ","s","a","n","g","r","e">>,
     <<"d","o","l","o","r"," ","a","b","d","o","m","i","n","a","l"," ","s","e","v","e","r","o">>,
     <<"p","é","r","d","i","d","a"," ","d","e"," ","c","o","n","c","i","e","n","c","i","a">>,
     <<"d","e","s","m","a","y","o">>,
     <<"c","o","n","v","u","l","s","i","o","n","e","s">>,
     <<"d","i","f","i","c","u","l","t","a","d"," ","r","e","s","p","i","r","a","t","o","r","i","a">>,
     <<"s","a","n","g","r","a","d","o"," ","r","e","c","t","a","l"," ","a","b","u","n","d","a","n","t","e">>,
     <<"v","ó","m","i","t","o"," ","n","e","g","r","o">>,
     <<"a","b","d","o","m","e","n"," ","r","í","g","i","d","o">>,
     <<"d","o","l","o","r"," ","q","u","e"," ","n","o"," ","c","e","d","e">>,
     <<"f","i","e","b","r","e"," ","m","u","y"," ","a","l","t","a">>,
     <<"d","e","s","h","i","d","r","a","t","a","c","i","ó","n"," ","s","e","v","e","r","a">> >>

\* criticalEmergencyKeywords of emergencyDetectionMiddleware
criticalEmergencyKeywords ==
  << <<"n","o"," ","p","u","e","d","o"," ","r","e","s","p","i","r","a","r">>,
     <<"d","o","l","o","r"," ","e","n"," ","e","l"," ","p","e","c","h","o">>,
     <<"s","a","n","g","r","a","d","o"," ","a","b","u","n","d","a","n","t","e">>,
     <<"p","é","r","d","i","d","a"," ","d","e"," ","c","o","n","c","i","e","n","c","i","a">>,
     <<"c","o","n","v","u","l","s","i","o","n","e","s">>,
     <<"d","i","f","i","c","u","l","t","a","d"," ","r","e","s","p","i","r","a","t","o","r","i","a"," ","s","e","v","e","r","a">>,
     <<"d","o","l","o","r"," ","a","b","d","o","m","i","n","a","l"," ","i","n","t","e","n","s","o">>,
     <<"v","ó","m","i","t","o"," ","c","o","n"," ","s","a","n","g","r","e">>,
     <<"h","e","c","e","s"," ","c","o","n"," ","s","a","n","g","r","e">>,
     <<"d","e","s","m","a","y","o">>,
     <<"m","a","r","e","o"," ","s","e","v","e","r","o">>,
     <<"v","i","s","i","ó","n"," ","b","o","r","r","o","s","a"," ","r","e","p","e","n","t","i","n","a">> >>

\* MedicalContentSanitizer.FORBIDDEN_TERMS
FORBIDDEN_TERMS ==
  << <<"d","r","o","g","a","s">>,
     <<"n","a","r","c","ó","t","i","c","o","s">>,
     <<"r","e","c","e","t","a"," ","f","a","l","s","a">>,
     <<"f","a","r","m","a","c","i","a"," ","i","l","e","g","a","l">>,
     <<"c","o","m","p","r","a","r"," ","p","a","s","t","i","l","l","a","s">>,
     <<"m","e","d","i","c","a","m","e","n","t","o","s"," ","b","a","r","a","t","o","s">> >>

\* MedicalContentSanitizer.MEDICAL_TERMS
MEDICAL_TERMS ==
  << <<"d","o","l","o","r">>,
     <<"s","í","n","t","o","m","a">>,
     <<"e","n","f","e","r","m","e","d","a","d">>,
     <<"t","r","a","t","a","m","i","e","n","t","o">>,
     <<"m","e","d","i","c","a","m","e","n","t","o">>,
     <<"d","i","a","g","n","ó","s","t","i","c","o">>,
     <<"t","e","r","a","p","i","a">>,
     <<"c","i","r","u","g","í","a">>,
     <<"h","o","s","p","i","t","a","l">>,
     <<"m","é","d","i","c","o">>,
     <<"a","b","d","o","m","e","n">>,
     <<"e","s","t","ó","m","a","g","o">>,
     <<"i","n","t","e","s","t","i","n","o">>,
     <<"d","i","g","e","s","t","i","v","o">>,
     <<"g","a","s","t","r","i","t","i","s">>,
     <<"c","o","l","i","t","i","s">>,
     <<"ú","l","c","e","r","a">>,
     <<"r","e","f","l","u","j","o">>,
     <<"n","á","u","s","e","a">>,
     <<"v","ó","m","i","t","o">>,
     <<"d","i","a","r","r","e","a">>,
     <<"e","s","t","r","e","ñ","i","m","i","e","n","t","o">>,
     <<"a","c","i","d","e","z">>,
     <<"i","n","d","i","g","e","s","t","i","ó","n">>,
     <<"g","a","s","t","r","o","e","n","t","e","r","o","l","o","g","í","a">> >>

\* symptomKeywords of MedicalAIService.extractSymptoms
symptomKeywords ==
  << <<"d","o","l","o","r">>,
     <<"d","u","e","l","e">>,
     <<"m","o","l","e","s","t","i","a">>,
     <<"a","r","d","o","r">>,
     <<"q","u","e","m","a","z","ó","n">>,
     <<"n","á","u","s","e","a">>,
     <<"n","á","u","s","e","a","s">>,
     <<"v","ó","m","i","t","o">>,
     <<"v","ó","m","i","t","o","s">>,
     <<"g","a","n","a","s"," ","d","e"," ","v","o","m","i","t","a","r">>,
     <<"d","i","a","r","r","e","a">>,
     <<"e","v","a","c","u","a","c","i","o","n","e","s">>,
     <<"h","e","c","e","s">>,
     <<"d","e","p","o","s","i","c","i","o","n","e","s">>,
     <<"e","s","t","r","e","ñ","i","m","i","e","n","t","o">>,
     <<"c","o","n","s","t","i","p","a","c","i","ó","n">>,
     <<"n","o"," ","e","v","a","c","u","o">>,
     <<"a","c","i","d","e","z">>,
     <<"a","g","r","u","r","a","s">>,
     <<"r","e","f","l","u","j","o">>,
     <<"e","r","u","c","t","o","s">>,
     <<"h","i","n","c","h","a","z","ó","n">>,
     <<"i","n","f","l","a","m","a","c","i","ó","n">>,
     <<"d","i","s","t","e","n","s","i","ó","n">>,
     <<"g","a","s","e","s">>,
     <<"s","a","n","g","r","e">>,
     <<"s","a","n","g","r","a","d","o">>,
     <<"r","o","j","o">>,
     <<"n","e","g","r","o">>,
     <<"f","i","e","b","r","e">>,
     <<"t","e","m","p","e","r","a","t","u","r","a">>,
     <<"e","s","c","a","l","o","f","r","í","o","s">>,
     <<"p","é","r","d","i","d","a"," ","d","e"," ","p","e","s","o">>,
     <<"f","a","l","t","a"," ","d","e"," ","a","p","e","t","i","t","o">>,
     <<"i","n","a","p","e","t","e","n","c","i","a">>,
     <<"f","a","t","i","g","a">>,
     <<"c","a","n","s","a","n","c","i","o">>,
     <<"d","e","b","i","l","i","d","a","d">> >>

\* validDurations of MedicalDataValidator.validateSymptomDuration
validDurations ==
  << <<"m","i","n","u","t","o","s">>,
     <<"h","o","r","a","s">>,
     <<"1"," ","d","í","a">>,
     <<"2","-","3"," ","d","í","a","s">>,
     <<"1"," ","s","e","m","a","n","a">>,
     <<"2","-","4"," ","s","e","m","a","n","a","s">>,
     <<"1"," ","m","e","s">>,
     <<"m","á","s"," ","d","e"," ","1"," ","m","e","s">>,
     <<"c","r","ó","n","i","c","o">> >>

(***************************************************************************)
(* Values of a request body                                                *)
(***************************************************************************)
\* a JSON value that is a string / a value that is missing / a truthy value
\* that is no string (a number)
Str(s) == [type |-> "string", text |-> s]
Undefined == [type |-> "undefined", text |-> <<>>]
NumberValue == [type |-> "number", text |-> <<>>]

\* JavaScript !v for these values
falsy(v) == v.type = "undefined" \/ (v.type = "string" /\ v.text = <<>>)

\* an optional number of the body: absent, or the integer v
NoNumber == [def |-> FALSE, v |-> 0]
Number(n) == [def |-> TRUE, v |-> n]

\* an optional list of the body: absent, or the array items
NoList == [def |-> FALSE, items |-> <<>>]
List(items) == [def |-> TRUE, items |-> items]

NoContext ==
  [def |-> FALSE, age |-> NoNumber, symptoms |-> NoList,
   painLevel |-> NoNumber, duration |-> Undefined]

(***************************************************************************)
(* MedicalContentSanitizer                                                 *)
(***************************************************************************)
\* the characters of the class [<>{}[\]\\\/]
DANGEROUS == {"<", ">", "{", "}", "[", "]", "\\", "/"}

MaxContentLength == 2000

\* the chain trim / toLowerCase / replace / replace / substring of sanitize
sanitizeChain(content) ==
  substring0(
    collapseWhitespace(
      SelectSeq(toLowerCase(trim(content)), LAMBDA c : c \notin DANGEROUS)),
    MaxContentLength)

\* sanitize throws 'Contenido no apropiado para consulta medica'
sanitizeThrows(content) ==
  /\ content # <<>>
  /\ \E i \in 1..Len(FORBIDDEN_TERMS) :
       includes(sanitizeChain(content), FORBIDDEN_TERMS[i])

\* the value sanitize returns when it does not throw
sanitize(content) ==
  IF content = <<>> THEN <<>> ELSE sanitizeChain(content)

extractMedicalTerms(content) ==
  IF content = <<>> THEN <<>>
  ELSE SelectSeq(splitWhitespace(toLowerCase(content)),
         LAMBDA word : \E i \in 1..Len(MEDICAL_TERMS) :
           includes(word, MEDICAL_TERMS[i]) \/ includes(MEDICAL_TERMS[i], word))

ShortContentLength == 50

isValidMedicalContent(content) ==
  IF sanitizeThrows(content) THEN FALSE
  ELSE Len(extractMedicalTerms(content)) > 0 \/ Len(content) < ShortContentLength

(***************************************************************************)
(* MedicalDataValidator                                                    *)
(***************************************************************************)
MaxSymptomCount == 20
MaxSymptomLength == 200

\* the errors validateSymptoms collects for one entry (0 or 1)
symptomEntryInvalid(symptom) ==
  \/ symptom.type # "string"
  \/ Len(trim(symptom.text)) < 2
  \/ Len(symptom.text) > MaxSymptomLength

\* validateSymptoms(symptoms).valid for an array
validateSymptoms(symptoms) ==
  /\ Len(symptoms) # 0
  /\ Len(symptoms) <= MaxSymptomCount
  /\ \A i \in 1..Len(symptoms) : ~symptomEntryInvalid(symptoms[i])

validatePainScale(intensity) == intensity >= 1 /\ intensity <= 10

validateSymptomDuration(duration) ==
  \E i \in 1..Len(validDurations) : validDurations[i] = toLowerCase(duration)

validateAge(age) == ~(age < 0 \/ age > 120)

\* ChatController.validateUserContext(userContext).isValid
validateUserContext(userContext) ==
  /\ userContext.age.def => validateAge(userContext.age.v)
  /\ userContext.symptoms.def => validateSymptoms(userContext.symptoms.items)
  /\ userContext.painLevel.def => validatePainScale(userContext.painLevel.v)
  /\ userContext.duration.type # "undefined" =>
       validateSymptomDuration(userContext.duration.text)

(***************************************************************************)
(* MedicalAIService                                                        *)
(***************************************************************************)
\* a variant that compares the whole message with each keyword
detectEmergencyWholeMessage(message) ==
  \E i \in 1..Len(CRITICAL_EMERGENCY_KEYWORDS) :
    toLowerCase(message) = toLowerCase(CRITICAL_EMERGENCY_KEYWORDS[i])

detectEmergency(message) ==
  \E i \in 1..Len(CRITICAL_EMERGENCY_KEYWORDS) :
    includes(toLowerCase(message), toLowerCase(CRITICAL_EMERGENCY_KEYWORDS[i]))

\* a variant that stops at the first keyword found
detectedKeywordsFirstHit(message) ==
  LET hits == SelectSeq(CRITICAL_EMERGENCY_KEYWORDS,
                LAMBDA keyword : includes(toLowerCase(message), toLowerCase(keyword)))
  IN  SubSeq(hits, 1, Min(1, Len(hits)))

\* detectedKeywords of handleEmergencyResponse
detectedKeywords(message) ==
  SelectSeq(CRITICAL_EMERGENCY_KEYWORDS,
    LAMBDA keyword : includes(toLowerCase(message), toLowerCase(keyword)))

\* [...new Set(list)]: the first occurrence of every element, in order
RECURSIVE Dedup(_)
Dedup(list) ==
  IF list = <<>> THEN <<>>
  ELSE LET front == Dedup(SubSeq(list, 1, Len(list) - 1))
           last == list[Len(list)]
       IN  IF last \in Range(front) THEN front ELSE Append(front, last)

extractSymptoms(message) ==
  Dedup(SelectSeq(symptomKeywords,
          LAMBDA keyword : includes(toLowerCase(message), keyword)))

\* generateMessageId: msg_<Date.now()>_<Math.random()>, a value that differs
\* from one call to the next
MessageIds == { "msg_1", "msg_2" }

NoChatResponse ==
  [present |-> FALSE, emergencyDetected |-> FALSE, confidence |-> 0,
   suggestedActions |-> <<>>, model |-> "none", symptomsExtracted |-> <<>>,
   messageId |-> "none"]

\* the ChatResponse handleEmergencyResponse builds (confidence in hundredths)
handleEmergencyResponse(message, messageId) ==
  [present |-> TRUE, emergencyDetected |-> TRUE, confidence |-> 100,
   suggestedActions |->
     << "Llame al 911 inmediatamente", "Acuda al hospital más cercano",
        "No espere a que los síntomas mejoren",
        "Si está solo, pida ayuda a alguien cercano" >>,
   model |-> "emergency_detection",
   symptomsExtracted |-> detectedKeywords(message),
   messageId |-> messageId]

\* What the Gemini call produced: it failed, or it returned a text of which
\* the model keeps what the service reads: whether it is empty, whether it is
\* longer than 50 characters, whether usageMetadata came with it, and the
\* number of its lines that contain a recommendation pattern.
AIOutcomes ==
  { [ok |-> FALSE, empty |-> FALSE, long |-> FALSE, usage |-> FALSE, recLines |-> 0],
    [ok |-> TRUE,  empty |-> TRUE,  long |-> FALSE, usage |-> FALSE, recLines |-> 0],
    [ok |-> TRUE,  empty |-> FALSE, long |-> TRUE,  usage |-> TRUE,  recLines |-> 2],
    [ok |-> TRUE,  empty |-> FALSE, long |-> TRUE,  usage |-> FALSE, recLines |-> 0],
    [ok |-> TRUE,  empty |-> FALSE, long |-> FALSE, usage |-> TRUE,  recLines |-> 6] }

\* callGemini throws 'AI service temporarily unavailable'
callGeminiThrows(ai) == ~ai.ok \/ ai.empty

\* calculateConfidence, in hundredths
calculateConfidence(ai) ==
  IF ai.long /\ ai.usage THEN 80
  ELSE IF ai.long THEN 72
  ELSE 56

MaxRecommendations == 5

\* extractRecommendations: the matching lines, at most five of them
extractRecommendations(ai) ==
  [i \in 1..Min(ai.recLines, MaxRecommendations) |-> "recommendation line"]

\* the ChatResponse of the normal path of processMessage
aiChatResponse(message, ai, messageId) ==
  [present |-> TRUE, emergencyDetected |-> FALSE,
   confidence |-> calculateConfidence(ai),
   suggestedActions |-> extractRecommendations(ai),
   model |-> "gemini-pro", symptomsExtracted |-> extractSymptoms(message),
   messageId |-> messageId]

\* the ChatResponse of the catch block of processMessage
errorChatResponse(messageId) ==
  [present |-> TRUE, emergencyDetected |-> FALSE, confidence |-> 0,
   suggestedActions |-> <<>>, model |-> "none", symptomsExtracted |-> <<>>,
   messageId |-> messageId]

\* the MedicalAnalysis analyzeMedicalQuery returns; symptoms, duration and age
\* are not read
analyzeMedicalQuery(symptoms, severity) ==
  [riskLevel |-> IF severity > 7 THEN "high"
                 ELSE IF severity > 4 THEN "medium" ELSE "low",
   recommendedActions |->
     << "Consulte con un profesional médico",
        "Mantenga un registro de síntomas",
        "Evite automedicarse" >>,
   urgencyLevel |-> IF severity > 7 THEN "urgent" ELSE "routine"]

(***************************************************************************)
(* ChatController                                                          *)
(***************************************************************************)
\* ChatController.determineRiskLevel, confidence in hundredths
determineRiskLevel(response) ==
  IF response.emergencyDetected THEN "emergency"
  ELSE IF response.confidence < 50 THEN "high"
  ELSE IF response.confidence < 70 THEN "medium"
  ELSE "low"

NoConversation ==
  [exists |-> FALSE, messages |-> <<>>, userSymptoms |-> <<>>,
   riskLevel |-> "low", emergencyDetected |-> FALSE, isActive |-> TRUE]

\* a variant whose update branch writes isActive like the create branch
upsertConversationActive(stored, read, response) ==
  [exists |-> TRUE,
   messages |-> read.messages \o <<"user", "assistant">>,
   userSymptoms |-> response.symptomsExtracted,
   riskLevel |-> determineRiskLevel(response),
   emergencyDetected |-> response.emergencyDetected,
   isActive |-> TRUE]

\* the row conversation.upsert leaves for conversationData of updateConversation
upsertConversation(stored, read, response) ==
  [exists |-> TRUE,
   messages |-> read.messages \o <<"user", "assistant">>,
   userSymptoms |-> response.symptomsExtracted,
   riskLevel |-> determineRiskLevel(response),
   emergencyDetected |-> response.emergencyDetected,
   isActive |-> IF stored.exists THEN stored.isActive ELSE TRUE]

(***************************************************************************)
(* Responses                                                               *)
(***************************************************************************)
NoResponse ==
  [status |-> 0, kind |-> "none", emergencyDetected |-> FALSE,
   detectedKeywords |-> <<>>, suggestedActions |-> <<>>,
   candidates |-> <<>>, urgencyLevel |-> "none", recommendations |-> <<>>,
   riskLevel |-> "none", messageId |-> "none"]

\* res.status(200).json({success: true, data: chatResponse, ...})
chatSuccess(response) ==
  [NoResponse EXCEPT !.status = 200, !.kind = "chat",
     !.emergencyDetected = response.emergencyDetected,
     !.detectedKeywords =
        IF response.emergencyDetected THEN response.symptomsExtracted ELSE <<>>,
     !.suggestedActions = response.suggestedActions,
     !.messageId = response.messageId]

\* res.status(500).json({success: false, error: ...}) of a catch block
errorResponse == [NoResponse EXCEPT !.status = 500, !.kind = "error"]

\* errorHandler for an EmergencyError: handleMedicalError, statusCode 500
emergencyErrorResponse(keywords) ==
  [NoResponse EXCEPT !.status = 500, !.kind = "emergency_error",
     !.detectedKeywords = keywords]

\* errorHandler for any other error passed to next(): handleGenericError
genericErrorResponse == [NoResponse EXCEPT !.status = 500, !.kind = "internal"]

\* errorHandler for a MedicalError thrown by a handler: handleMedicalError
medicalErrorResponse == [NoResponse EXCEPT !.status = 500, !.kind = "medical_error"]

\* the handler's promise rejected: no response is written by the handler
unhandledRejection == [NoResponse EXCEPT !.kind = "unhandled"]

\* the MedicalAnalysis handed to the caller of analyzeMedicalQuery
analysisResult(analysis) ==
  [NoResponse EXCEPT !.kind = "analysis",
     !.riskLevel = analysis.riskLevel,
     !.urgencyLevel = analysis.urgencyLevel,
     !.recommendations = analysis.recommendedActions]

(***************************************************************************)
(* Disease table                                                           *)
(***************************************************************************)
Y_dolorAbdominal == <<"d","o","l","o","r"," ","a","b","d","o","m","i","n","a","l">>
Y_nauseas == <<"n","á","u","s","e","a","s">>
Y_acidez == <<"a","c","i","d","e","z">>
Y_diarrea == <<"d","i","a","r","r","e","a">>
Y_fiebre == <<"f","i","e","b","r","e">>
Y_vomitoConSangre == <<"v","ó","m","i","t","o"," ","c","o","n"," ","s","a","n","g","r","e">>
Y_gases == <<"g","a","s","e","s">>

Disease(name, symptoms, severityLevel, category, isActive) ==
  [name |-> name, symptoms |-> symptoms, severityLevel |-> severityLevel,
   category |-> category, isActive |-> isActive]

\* rows the disease table holds, in the order of their names
DiseaseRows ==
  << Disease("Apendicitis", <<Y_dolorAbdominal, Y_fiebre, Y_nauseas>>, "emergency", "emergency", TRUE),
     Disease("Colitis", <<Y_dolorAbdominal, Y_diarrea>>, "moderate", "inflammatory", TRUE),
     Disease("Dispepsia", <<Y_dolorAbdominal, Y_acidez>>, "mild", "functional", TRUE),
     Disease("Enfermedad de Crohn", <<Y_dolorAbdominal, Y_diarrea, Y_fiebre>>, "severe", "autoimmune", TRUE),
     Disease("Estreñimiento funcional", <<>>, "mild", "functional", TRUE),
     Disease("Flatulencia funcional", <<Y_gases>>, "mild", "functional", TRUE),
     Disease("Gastritis", <<Y_dolorAbdominal, Y_nauseas, Y_acidez>>, "moderate", "digestive", TRUE),
     Disease("Gastroenteritis", <<Y_diarrea, Y_nauseas, Y_fiebre, Y_dolorAbdominal>>, "mild", "infectious", TRUE),
     Disease("Hemorragia digestiva", <<Y_vomitoConSangre, Y_dolorAbdominal>>, "emergency", "emergency", TRUE),
     Disease("Hepatitis", <<Y_dolorAbdominal, Y_fiebre>>, "severe", "infectious", FALSE),
     Disease("Hernia de hiato", <<Y_acidez, Y_dolorAbdominal>>, "mild", "digestive", TRUE),
     Disease("Intolerancia a la lactosa", <<Y_dolorAbdominal, Y_diarrea>>, "mild", "functional", TRUE),
     Disease("Pancreatitis", <<Y_dolorAbdominal, Y_nauseas>>, "severe", "digestive", TRUE),
     Disease("Reflujo gastroesofágico", <<Y_acidez, Y_dolorAbdominal>>, "mild", "digestive", TRUE),
     Disease("Síndrome de intestino irritable", <<Y_dolorAbdominal, Y_diarrea, Y_nauseas>>, "moderate", "functional", TRUE),
     Disease("Úlcera péptica", <<Y_dolorAbdominal, Y_acidez, Y_nauseas>>, "severe", "digestive", TRUE) >>

\* a variant without the hasSome condition
findDiseasesBySymptomsNoFilter(rows, symptoms) ==
  SelectSeq(rows, LAMBDA disease : disease.isActive)

\* where: { isActive: true, symptoms: { hasSome: symptoms } }, orderBy name
findDiseasesBySymptoms(rows, symptoms) ==
  SelectSeq(rows, LAMBDA disease :
    /\ disease.isActive
    /\ \E i \in 1..Len(disease.symptoms) : disease.symptoms[i] \in Range(symptoms))

\* dbService.searchDiseasesBySymptoms: the active diseases that have at least
\* one of the symptoms of the search, in the order of their names
searchDiseasesBySymptomsLookup(rows, symptoms) ==
  SelectSeq(rows, LAMBDA disease :
    /\ disease.isActive
    /\ \E i \in 1..Len(disease.symptoms), j \in 1..Len(symptoms) :
         /\ symptoms[j].type = "string"
         /\ disease.symptoms[i] = toLowerCase(trim(symptoms[j].text)))

(***************************************************************************)
(* DiseaseController: scores and order                                     *)
(***************************************************************************)
\* A score is the fraction num / den; den = 0 stands for NaN (0 / 0).
Score(num, den) == [num |-> num, den |-> den]
isNaN(value) == value.den = 0

\* a.matchScore !== b.matchScore
scoreDiffers(a, b) ==
  isNaN(a) \/ isNaN(b) \/ a.num * b.den # b.num * a.den

\* the sign of b.matchScore - a.matchScore as the sort reads it (NaN as 0)
scoreDifference(a, b) ==
  IF isNaN(a) \/ isNaN(b) THEN 0 ELSE b.num * a.den - a.num * b.den

severityOrder(level) ==
  CASE level = "emergency" -> 4
    [] level = "severe" -> 3
    [] level = "moderate" -> 2
    [] level = "mild" -> 1
    [] OTHER -> 0

urgencyOrder(level) ==
  CASE level = "immediate" -> 4
    [] level = "urgent" -> 3
    [] level = "moderate" -> 2
    [] level = "low" -> 1

\* a variant without the tie-break on severity
compareScoreOnly(a, b) == scoreDifference(a.matchScore, b.matchScore)

\* the comparator of searchDiseasesBySymptoms
compareScoreSeverity(a, b) ==
  IF scoreDiffers(a.matchScore, b.matchScore)
  THEN scoreDifference(a.matchScore, b.matchScore)
  ELSE severityOrder(b.severityLevel) - severityOrder(a.severityLevel)

\* the comparator of searchBySymptoms
compareUrgencyScore(a, b) ==
  IF a.urgencyLevel # b.urgencyLevel
  THEN urgencyOrder(b.urgencyLevel) - urgencyOrder(a.urgencyLevel)
  ELSE scoreDifference(a.matchScore, b.matchScore)

\* the comparator a sort is called with
compare(order, a, b) ==
  IF order = "scoreSeverity" THEN compareScoreSeverity(a, b)
  ELSE compareUrgencyScore(a, b)

\* Array.prototype.sort (stable): every element goes behind the elements the
\* comparator does not put after it
InsertSorted(sorted, x, order) ==
  LET after == {i \in 1..Len(sorted) : compare(order, sorted[i], x) > 0}
      pos == IF after = {} THEN Len(sorted) + 1
             ELSE CHOOSE i \in after : \A j \in after : i <= j
  IN  SubSeq(sorted, 1, pos - 1) \o <<x>> \o SubSeq(sorted, pos, Len(sorted))

SortBy(list, order) ==
  LET sorted[n \in 0..Len(list)] ==
        IF n = 0 THEN <<>>
        ELSE InsertSorted(sorted[n - 1], list[n], order)
  IN  sorted[Len(list)]

TopResults == 10

\* Array.prototype.slice(0, n)
slice0(list, n) == SubSeq(list, 1, Min(Len(list), n))

(***************************************************************************)
(* DiseaseController.searchDiseasesBySymptoms                              *)
(***************************************************************************)
\* symptoms.filter(string with a non-blank text).map(trim, toLowerCase)
sanitizedSymptoms(symptoms) ==
  LET kept == SelectSeq(symptoms, LAMBDA symptom :
                symptom.type = "string" /\ Len(trim(symptom.text)) > 0)
  IN  [i \in 1..Len(kept) |-> toLowerCase(trim(kept[i].text))]

MaxSearchSymptoms == 20

\* a variant that lets a missing or empty list through
searchRejectsTooManyOnly(symptoms) ==
  Len(symptoms.items) > MaxSearchSymptoms

\* the checks of the handler that throw a validation error
searchRejects(symptoms) ==
  \/ ~symptoms.def
  \/ Len(symptoms.items) = 0
  \/ Len(symptoms.items) > MaxSearchSymptoms
  \/ Len(sanitizedSymptoms(symptoms.items)) = 0

matchingSymptoms(disease, userSymptoms) ==
  SelectSeq(disease.symptoms, LAMBDA symptom :
    \E j \in 1..Len(userSymptoms) :
      \/ includes(toLowerCase(symptom), userSymptoms[j])
      \/ includes(userSymptoms[j], toLowerCase(symptom)))

alarmSymptoms ==
  << <<"s","a","n","g","r","e">>,
     <<"s","a","n","g","r","a","d","o">>,
     <<"d","o","l","o","r"," ","i","n","t","e","n","s","o">>,
     <<"f","i","e","b","r","e"," ","a","l","t","a">>,
     <<"d","i","f","i","c","u","l","t","a","d"," ","r","e","s","p","i","r","a","r">> >>

getUrgencyIndicators(disease, matching) ==
  (IF disease.severityLevel = "emergency"
   THEN << "Requiere atención médica inmediata", "Contacte servicios de emergencia" >>
   ELSE IF disease.severityLevel = "severe"
   THEN << "Consulte con un médico pronto", "Monitoree síntomas de cerca" >>
   ELSE <<>>)
  \o
  (IF \E i \in 1..Len(matching), k \in 1..Len(alarmSymptoms) :
        includes(toLowerCase(matching[i]), alarmSymptoms[k])
   THEN << "Síntomas de alarma detectados" >>
   ELSE <<>>)

\* a variant that divides by the number of symptoms of the search
scoreOverUserSymptoms(disease, matching, userSymptoms) ==
  Score(Len(matching), Len(userSymptoms))

\* score = matchingSymptoms.length / disease.symptoms.length
score(disease, matching, userSymptoms) ==
  Score(Len(matching), Len(disease.symptoms))

\* one element of diseasesWithScore
diseaseWithScore(disease, userSymptoms) ==
  [name |-> disease.name,
   severityLevel |-> disease.severityLevel,
   category |-> disease.category,
   matchingSymptoms |-> matchingSymptoms(disease, userSymptoms),
   totalSymptoms |-> Len(disease.symptoms),
   matchScore |-> score(disease, matchingSymptoms(disease, userSymptoms), userSymptoms),
   urgencyIndicators |->
     getUrgencyIndicators(disease, matchingSymptoms(disease, userSymptoms)),
   urgencyLevel |-> "none",
   recommendedAction |-> "none"]

diseasesWithScore(found, userSymptoms) ==
  [i \in 1..Len(found) |-> diseaseWithScore(found[i], userSymptoms)]

\* a variant that cuts the list before it is sorted
sliceThenSort(scored) ==
  SortBy(slice0(scored, TopResults), "scoreSeverity")

\* sortedDiseases: sort, then slice(0, 10)
sortThenSlice(scored) ==
  slice0(SortBy(scored, "scoreSeverity"), TopResults)

\* a variant that reads the severity of the first candidate only
overallUrgencyTopOnly(sorted) ==
  IF Len(sorted) = 0 THEN "low"
  ELSE IF sorted[1].severityLevel = "emergency" THEN "emergency"
  ELSE IF sorted[1].severityLevel = "severe" THEN "high"
  ELSE "medium"

\* a variant that answers low for a list without a severe or emergency disease
overallUrgencyLowWhenMild(sorted) ==
  IF \E i \in 1..Len(sorted) : sorted[i].severityLevel = "emergency" THEN "emergency"
  ELSE IF \E i \in 1..Len(sorted) : sorted[i].severityLevel = "severe" THEN "high"
  ELSE "low"

\* urgencyLevel of the whole search
overallUrgency(sorted) ==
  IF \E i \in 1..Len(sorted) : sorted[i].severityLevel = "emergency" THEN "emergency"
  ELSE IF \E i \in 1..Len(sorted) : sorted[i].severityLevel = "severe" THEN "high"
  ELSE IF Len(sorted) > 0 THEN "medium"
  ELSE "low"

getSearchRecommendations(urgencyLevel) ==
  CASE urgencyLevel = "emergency" ->
         << "Busque atención médica inmediata",
            "Llame al 911 o acuda a emergencias",
            "No espere a que los síntomas mejoren",
            "Mantenga un registro detallado de síntomas" >>
    [] urgencyLevel = "high" ->
         << "Consulte con un médico en las próximas 24 horas",
            "Monitoree síntomas de cerca",
            "Evite automedicarse",
            "Busque atención si los síntomas empeoran" >>
    [] urgencyLevel = "medium" ->
         << "Considere consultar con un médico",
            "Mantenga un registro de síntomas",
            "Practique medidas de autocuidado apropiadas",
            "Busque atención si los síntomas persisten" >>
    [] OTHER ->
         << "Mantenga hábitos saludables",
            "Monitoree síntomas ocasionalmente",
            "Consulte si los síntomas persisten o empeoran",
            "Practique medidas preventivas" >>

\* res.status(200).json of searchDiseasesBySymptoms
searchSuccess(sorted) ==
  [NoResponse EXCEPT !.status = 200, !.kind = "search",
     !.candidates = sorted,
     !.urgencyLevel = overallUrgency(sorted),
     !.recommendations = getSearchRecommendations(overallUrgency(sorted))]

(***************************************************************************)
(* DiseaseController.searchBySymptoms                                      *)
(***************************************************************************)
\* Math.round((matches / patient) * 100), for matches <= patient
roundPercent(matches, patient) == (200 * matches + patient) \div (2 * patient)

\* calculateSymptomMatchScore for an array of strings
calculateSymptomMatchScore(patientSymptoms, diseaseSymptoms) ==
  IF Len(diseaseSymptoms) = 0 THEN Score(0, 1)
  ELSE IF Len(patientSymptoms) = 0 THEN Score(0, 0)
  ELSE LET normalizedPatient ==
             [i \in 1..Len(patientSymptoms) |-> trim(toLowerCase(patientSymptoms[i].text))]
           normalizedDisease ==
             [i \in 1..Len(diseaseSymptoms) |-> trim(toLowerCase(diseaseSymptoms[i]))]
           matches ==
             SelectSeq(normalizedPatient, LAMBDA patientSymptom :
               \E k \in 1..Len(normalizedDisease) :
                 \/ includes(normalizedDisease[k], patientSymptom)
                 \/ includes(patientSymptom, normalizedDisease[k]))
       IN  Score(roundPercent(Len(matches), Len(normalizedPatient)), 1)

\* emergencySymptoms of determineUrgencyLevel
emergencySymptoms ==
  << <<"d","o","l","o","r"," ","d","e"," ","p","e","c","h","o"," ","s","e","v","e","r","o">>,
     <<"d","i","f","i","c","u","l","t","a","d"," ","p","a","r","a"," ","r","e","s","p","i","r","a","r">>,
     <<"c","o","n","v","u","l","s","i","o","n","e","s">>,
     <<"p","é","r","d","i","d","a"," ","d","e"," ","c","o","n","s","c","i","e","n","c","i","a">>,
     <<"s","a","n","g","r","a","d","o"," ","a","b","u","n","d","a","n","t","e">>,
     <<"v","ó","m","i","t","o"," ","c","o","n"," ","s","a","n","g","r","e">>,
     <<"d","o","l","o","r"," ","a","b","d","o","m","i","n","a","l"," ","s","e","v","e","r","o">>,
     <<"f","i","e","b","r","e"," ","m","u","y"," ","a","l","t","a">> >>

determineUrgencyLevel(disease, symptoms, painLevel) ==
  IF \/ \E i \in 1..Len(symptoms) :
          LET symptom == toLowerCase(symptoms[i].text)
          IN  \E k \in 1..Len(emergencySymptoms) :
                includes(symptom, toLowerCase(emergencySymptoms[k]))
     \/ (painLevel.def /\ painLevel.v # 0 /\ painLevel.v >= 8)
  THEN "immediate"
  ELSE IF disease.severityLevel = "severe" \/ disease.category = "emergency"
  THEN "urgent"
  ELSE IF \/ disease.severityLevel = "moderate"
          \/ (painLevel.def /\ painLevel.v # 0 /\ painLevel.v >= 6)
  THEN "moderate"
  ELSE "low"

getRecommendedAction(disease, emergencyMode) ==
  IF emergencyMode \/ disease.category = "emergency"
  THEN "Busque atención médica inmediata. Llame al 911 si es necesario."
  ELSE CASE disease.severityLevel = "severe" ->
              "Consulte con un médico urgentemente en las próximas 4-6 horas."
         [] disease.severityLevel = "moderate" ->
              "Programe una cita médica en los próximos 1-2 días."
         [] disease.severityLevel = "mild" ->
              "Monitoree síntomas y consulte si persisten o empeoran."
         [] OTHER ->
              "Consulte con un profesional médico para evaluación adecuada."

\* one element of diseasesWithScores
diseaseWithScores(disease, symptoms, painLevel, emergencyMode) ==
  [name |-> disease.name,
   severityLevel |-> disease.severityLevel,
   category |-> disease.category,
   matchingSymptoms |-> <<>>,
   totalSymptoms |-> Len(disease.symptoms),
   matchScore |-> calculateSymptomMatchScore(symptoms, disease.symptoms),
   urgencyIndicators |-> <<>>,
   urgencyLevel |-> determineUrgencyLevel(disease, symptoms, painLevel),
   recommendedAction |-> getRecommendedAction(disease, emergencyMode)]

diseasesWithScores(found, symptoms, painLevel, emergencyMode) ==
  [i \in 1..Len(found) |->
     diseaseWithScores(found[i], symptoms, painLevel, emergencyMode)]

\* res.status(200).json of searchBySymptoms
searchBySymptomsSuccess(scored) ==
  [NoResponse EXCEPT !.status = 200, !.kind = "search",
     !.candidates = slice0(SortBy(scored, "urgencyScore"), TopResults)]

(***************************************************************************)
(* Inputs                                                                  *)
(***************************************************************************)
F_vomitoNegro == <<"v","ó","m","i","t","o"," ","n","e","g","r","o">>
F_Desmayo == <<"D","e","s","m","a","y","o">>
F_fiebre == <<"f","i","e","b","r","e"," ","m","u","y"," ","a","l","t","a">>
F_pecho == <<"d","o","l","o","r"," ","e","n"," ","e","l"," ","p","e","c","h","o">>
F_drogas == <<"d","r","o","g","a","s">>
F_nauseas == <<"t","e","n","g","o"," ","n","á","u","s","e","a","s">>
F_filler == <<"h","o","l","a"," ","b","u","e","n","a","s"," ","t","a","r","d","e","s"," ","q","u","i","s","i","e","r","a"," ","s","a","b","e","r"," ","l","o","s"," ","h","o","r","a","r","i","o","s"," ","d","e","l"," ","l","u","g","a","r">>
F_space == <<"\t", " ">>
F_lt == <<"<">>

\* the pieces a message text is put together from
Fragments ==
  { F_vomitoNegro, F_Desmayo, F_fiebre, F_pecho, F_drogas, F_nauseas,
    F_filler, F_space, F_lt }

\* a message text is the concatenation of at most MaxFrags fragments
MaxFrags == 2

RECURSIVE Concat(_)
Concat(pieces) ==
  IF pieces = <<>> THEN <<>> ELSE Head(pieces) \o Concat(Tail(pieces))

Texts ==
  { Concat(pieces) : pieces \in UNION { [1..n -> Fragments] : n \in 0..MaxFrags } }

\* a text whose first character is one sanitize removes, with a space after it
F_brace == <<"{", " ">>

BracedMessages == { Str(F_brace \o F_nauseas) }

ChatMessages ==
  { Str(text) : text \in Texts } \cup { Undefined, NumberValue }
  \cup BracedMessages

S_dolorAbdominal == <<"d","o","l","o","r"," ","a","b","d","o","m","i","n","a","l">>
S_a == <<"a">>
D_Minutos == <<"M","i","n","u","t","o","s">>
D_ayer == <<"a","y","e","r">>

\* a list one entry longer than validateSymptoms allows
TooManySymptoms == [i \in 1..(MaxSymptomCount + 1) |-> Str(S_dolorAbdominal)]

\* the message of the scenario of the specification and the message and the
\* userContext of the example 'Manejo de Emergencias' of the README
M_vomitandoSangre == <<"e","s","t","o","y"," ","v","o","m","i","t","a","n","d","o"," ","s","a","n","g","r","e"," ","y"," ","t","e","n","g","o"," ","d","o","l","o","r"," ","a","b","d","o","m","i","n","a","l"," ","s","e","v","e","r","o">>
M_dolorPecho == <<"T","e","n","g","o"," ","d","o","l","o","r"," ","s","e","v","e","r","o"," ","e","n"," ","e","l"," ","p","e","c","h","o"," ","y"," ","d","i","f","i","c","u","l","t","a","d"," ","p","a","r","a"," ","r","e","s","p","i","r","a","r">>
S_dolorPechoSevero == <<"d","o","l","o","r"," ","d","e"," ","p","e","c","h","o"," ","s","e","v","e","r","o">>
S_dificultadRespirar == <<"d","i","f","i","c","u","l","t","a","d"," ","p","a","r","a"," ","r","e","s","p","i","r","a","r">>
D_minutos == <<"m","i","n","u","t","o","s">>

DocumentedMessages == { Str(M_vomitandoSangre), Str(M_dolorPecho) }

DocumentedContexts ==
  { [NoContext EXCEPT !.def = TRUE, !.painLevel = Number(10),
                      !.duration = Str(D_minutos)],
    [NoContext EXCEPT !.def = TRUE, !.painLevel = Number(10),
                      !.duration = Str(D_minutos),
                      !.symptoms = List(<<Str(S_dolorPechoSevero),
                                          Str(S_dificultadRespirar)>>)] }

UserContexts ==
  { NoContext }
  \cup { [NoContext EXCEPT !.def = TRUE, !.painLevel = Number(n)] : n \in {0, 5, 10, 11} }
  \cup { [NoContext EXCEPT !.def = TRUE, !.age = Number(n)] : n \in {30, 130} }
  \cup { [NoContext EXCEPT !.def = TRUE, !.duration = Str(d)] : d \in {D_Minutos, D_ayer} }
  \cup { [NoContext EXCEPT !.def = TRUE, !.symptoms = List(items)] :
           items \in { <<>>, <<Str(S_dolorAbdominal)>>, <<Str(S_a)>>,
                       <<Str(S_dolorAbdominal), NumberValue>>, TooManySymptoms } }
  \cup DocumentedContexts

\* the contexts every message text is tried with
CoreContexts ==
  { NoContext }
  \cup { [NoContext EXCEPT !.def = TRUE, !.painLevel = Number(n)] : n \in {10, 11} }

\* the message texts every user context is tried with
CoreMessages ==
  { Str(text) : text \in Fragments } \cup { Undefined, NumberValue }
  \cup DocumentedMessages

\* the bodies of the chat requests
ChatRequests ==
  (ChatMessages \X CoreContexts) \cup (CoreMessages \X UserContexts)

S_Nauseas == <<"N","á","u","s","e","a","s">>
S_acidez == <<"a","c","i","d","e","z">>
S_dolorAbdominalSevero == <<"d","o","l","o","r"," ","a","b","d","o","m","i","n","a","l"," ","s","e","v","e","r","o">>
S_blank == <<" ">>
S_gases == <<"g","a","s","e","s">>

\* entries of the symptoms array of a search
SymptomEntries ==
  { Str(S_dolorAbdominal), Str(S_Nauseas), Str(S_acidez),
    Str(S_dolorAbdominalSevero), Str(S_a), Str(S_blank), Str(S_gases),
    NumberValue }

MaxSymptoms == 2

SymptomLists ==
  { NoList, List(TooManySymptoms) }
  \cup { List(l) : l \in UNION { [1..n -> SymptomEntries] : n \in 0..MaxSymptoms } }

PainLevels == { NoNumber, Number(6), Number(9) }

\* the severity and the symptoms analyzeMedicalQuery is called with
Severities == { 0, 4, 5, 7, 8, 10 }

AnalysisSymptoms ==
  { <<>>, <<Str(S_dolorAbdominal)>>, <<Str(S_dolorAbdominalSevero)>> }

NoRequest ==
  [kind |-> "none", message |-> Undefined, userContext |-> NoContext,
   symptoms |-> NoList, painLevel |-> NoNumber]

\* conversations an earlier request of the session may have stored
StoredConversations ==
  { NoConversation,
    [NoConversation EXCEPT !.exists = TRUE, !.messages = <<"user", "assistant">>,
       !.riskLevel = "emergency", !.emergencyDetected = TRUE] }

(***************************************************************************)
(* POST /api/chat/message                                                  *)
(***************************************************************************)
\* message of the ChatRequest sendMessage builds
chatRequestMessage == sanitize(req.message.text)

\* sanitizedMessage of processMessage
serviceMessage == sanitize(chatRequestMessage)

ReceiveChatMessage(message, userContext) ==
  /\ pc = "idle"
  /\ req' = [NoRequest EXCEPT !.kind = "chat", !.message = message,
                              !.userContext = userContext]
  /\ pc' = "emergencyDetectionMiddleware"
  /\ UNCHANGED <<resp, stages, existing, chatResponse, conv, catalog, sessionVars, seedVars, chatVars, previous, scoredDiseases>>

\* detectedKeywords the middleware puts into the EmergencyError
middlewareKeywords(message) ==
  SelectSeq(criticalEmergencyKeywords, LAMBDA keyword : includes(message, keyword))

EmergencyDetectionMiddleware ==
  /\ pc = "emergencyDetectionMiddleware"
  /\ IF falsy(req.message)
     THEN /\ pc' = "sendMessage"
          /\ UNCHANGED <<resp, stages>>
     ELSE IF req.message.type # "string"
     THEN \* toLowerCase is not a function: the catch passes the error on
          /\ pc' = "done"
          /\ resp' = genericErrorResponse
          /\ UNCHANGED stages
     ELSE LET message == toLowerCase(req.message.text)
          IN  IF \E i \in 1..Len(criticalEmergencyKeywords) :
                    includes(message, criticalEmergencyKeywords[i])
              THEN /\ pc' = "done"
                   /\ resp' = emergencyErrorResponse(middlewareKeywords(message))
                   /\ stages' = Append(stages, "middlewareEmergency")
              ELSE /\ pc' = "sendMessage"
                   /\ UNCHANGED <<resp, stages>>
  /\ UNCHANGED <<req, existing, chatResponse, conv, catalog, sessionVars, seedVars, chatVars, previous, scoredDiseases>>

\* sendMessage up to its first await: the checks that throw a validation error
sendMessageRejects ==
  \/ falsy(req.message) \/ req.message.type # "string"
  \/ sanitizeThrows(req.message.text)
  \/ ~isValidMedicalContent(sanitize(req.message.text))
  \/ (req.userContext.def /\ ~validateUserContext(req.userContext))

SendMessage ==
  /\ pc = "sendMessage"
  /\ IF sendMessageRejects
     THEN /\ pc' = "done"
          /\ resp' = errorResponse
          /\ stages' = Append(stages, "validationError")
     ELSE /\ pc' = "getConversation"
          /\ UNCHANGED <<resp, stages>>
  /\ UNCHANGED <<req, existing, chatResponse, conv, catalog, sessionVars, seedVars, chatVars, previous, scoredDiseases>>

\* dbService.getConversation returns, then processMessage runs up to the
\* Gemini call
GetConversation(ok, messageId) ==
  /\ pc = "getConversation"
  /\ IF ~ok
     THEN /\ pc' = "done"
          /\ resp' = errorResponse
          /\ stages' = Append(stages, "getConversation")
          /\ UNCHANGED <<existing, chatResponse>>
     ELSE /\ existing' = conv
          /\ UNCHANGED resp
          /\ IF sanitizeThrows(chatRequestMessage)
             THEN /\ chatResponse' = errorChatResponse(messageId)
                  /\ pc' = "updateConversation"
                  /\ stages' = stages \o <<"getConversation", "sanitize">>
             ELSE IF detectEmergency(serviceMessage)
             THEN /\ chatResponse' = handleEmergencyResponse(serviceMessage, messageId)
                  /\ pc' = "handleEmergencyDetection"
                  /\ stages' = stages \o
                       <<"getConversation", "sanitize", "detectEmergency">>
             ELSE /\ UNCHANGED chatResponse
                  /\ pc' = "callGemini"
                  /\ stages' = stages \o
                       <<"getConversation", "sanitize", "detectEmergency",
                         "extractSymptoms">>
  /\ UNCHANGED <<req, conv, catalog, sessionVars, seedVars, chatVars, previous, scoredDiseases>>

\* the Gemini call returns or fails, and processMessage returns
CallGemini(ai, messageId) ==
  /\ pc = "callGemini"
  /\ IF callGeminiThrows(ai)
     THEN /\ chatResponse' = errorChatResponse(messageId)
          /\ stages' = Append(stages, "callGemini")
     ELSE /\ chatResponse' = aiChatResponse(serviceMessage, ai, messageId)
          /\ stages' = stages \o <<"callGemini", "validateMedicalResponse">>
  /\ pc' = "updateConversation"
  /\ UNCHANGED <<req, resp, existing, conv, catalog, sessionVars, seedVars, chatVars, previous, scoredDiseases>>

\* handleEmergencyDetection: logs, and swallows a failure of logActivity
HandleEmergencyDetection(ok) ==
  /\ pc = "handleEmergencyDetection"
  /\ pc' = "updateConversation"
  /\ stages' = Append(stages, IF ok THEN "logEmergency" ELSE "logEmergencyFailed")
  /\ UNCHANGED <<req, resp, existing, chatResponse, conv, catalog, sessionVars, seedVars, chatVars, previous, scoredDiseases>>

\* updateConversation: determineRiskLevel, then saveConversation (upsert)
UpdateConversation(ok) ==
  /\ pc = "updateConversation"
  /\ IF ok
     THEN /\ conv' = upsertConversation(conv, existing, chatResponse)
          /\ pc' = "logActivity"
          /\ stages' = stages \o <<"determineRiskLevel", "saveConversation">>
          /\ UNCHANGED resp
     ELSE /\ pc' = "done"
          /\ resp' = errorResponse
          /\ stages' = stages \o <<"determineRiskLevel", "saveConversationFailed">>
          /\ UNCHANGED conv
  /\ UNCHANGED <<req, existing, chatResponse, catalog, sessionVars, seedVars, chatVars, previous, scoredDiseases>>

\* logActivity, then the response is written
LogActivity(ok) ==
  /\ pc = "logActivity"
  /\ pc' = "done"
  /\ resp' = IF ok THEN chatSuccess(chatResponse) ELSE errorResponse
  /\ stages' = Append(stages, IF ok THEN "logActivity" ELSE "logActivityFailed")
  /\ UNCHANGED <<req, existing, chatResponse, conv, catalog, sessionVars, seedVars, chatVars, previous, scoredDiseases>>

(***************************************************************************)
(* Symptom searches of the DiseaseController                               *)
(***************************************************************************)
ReceiveSearch(kind, symptoms, painLevel) ==
  /\ pc = "idle"
  /\ req' = [NoRequest EXCEPT !.kind = kind, !.symptoms = symptoms,
                              !.painLevel = painLevel]
  /\ pc' = kind
  /\ UNCHANGED <<resp, stages, existing, chatResponse, conv, catalog, sessionVars, seedVars, chatVars, previous, scoredDiseases>>

\* searchDiseasesBySymptoms up to its await: the checks and the sanitizing
SearchDiseasesBySymptoms ==
  /\ pc = "searchDiseasesBySymptoms"
  /\ IF searchRejects(req.symptoms)
     THEN /\ resp' = errorResponse
          /\ stages' = Append(stages, "validationError")
          /\ pc' = "done"
     ELSE /\ pc' = "findDiseasesBySymptoms"
          /\ UNCHANGED <<resp, stages>>
  /\ UNCHANGED <<req, existing, chatResponse, conv, catalog, sessionVars, seedVars, chatVars, previous, scoredDiseases>>

\* a variant whose lookup has no orderBy: the rows come back in the order of
\* their names or in the opposite order
FindDiseasesBySymptomsUnordered(ok) ==
  /\ pc = "findDiseasesBySymptoms"
  /\ stages' = Append(stages, "findDiseasesBySymptoms")
  /\ \E reversed \in BOOLEAN :
       LET userSymptoms == sanitizedSymptoms(req.symptoms.items)
           byName == findDiseasesBySymptoms(catalog, userSymptoms)
           found == IF reversed
                    THEN [i \in 1..Len(byName) |-> byName[Len(byName) + 1 - i]]
                    ELSE byName
       IN  IF ok
           THEN /\ scoredDiseases' = diseasesWithScore(found, userSymptoms)
                /\ resp' = searchSuccess(sortThenSlice(scoredDiseases'))
           ELSE /\ scoredDiseases' = <<>>
                /\ resp' = errorResponse
  /\ pc' = "done"
  /\ UNCHANGED <<req, existing, chatResponse, conv, catalog, sessionVars, seedVars, chatVars, previous>>

\* searchDiseasesBySymptoms from the lookup on; ok: the lookup succeeds
FindDiseasesBySymptoms(ok) ==
  /\ pc = "findDiseasesBySymptoms"
  /\ stages' = Append(stages, "findDiseasesBySymptoms")
  /\ LET userSymptoms == sanitizedSymptoms(req.symptoms.items)
         found == findDiseasesBySymptoms(catalog, userSymptoms)
     IN  IF ok
         THEN /\ scoredDiseases' = diseasesWithScore(found, userSymptoms)
              /\ resp' = searchSuccess(sortThenSlice(scoredDiseases'))
         ELSE /\ scoredDiseases' = <<>>
              /\ resp' = errorResponse
  /\ pc' = "done"
  /\ UNCHANGED <<req, existing, chatResponse, conv, catalog, sessionVars, seedVars, chatVars, previous>>

\* s.toLowerCase() of calculateSymptomMatchScore on an entry that is no string
searchBySymptomsThrows(found, symptoms) ==
  /\ Len(found) > 0
  /\ \E i \in 1..Len(symptoms) : symptoms[i].type # "string"

\* searchBySymptoms; ok: the lookup succeeds; forwarded: the rejection of the
\* handler's promise reaches the error handler of the application
SearchBySymptoms(ok, forwarded) ==
  /\ pc = "searchBySymptoms"
  /\ stages' = Append(stages, "searchDiseasesBySymptoms")
  /\ LET symptoms == req.symptoms.items
         found == searchDiseasesBySymptomsLookup(catalog, symptoms)
     IN  IF ok /\ ~searchBySymptomsThrows(found, symptoms)
         THEN /\ scoredDiseases' = diseasesWithScores(found, symptoms, req.painLevel, FALSE)
              /\ resp' = searchBySymptomsSuccess(scoredDiseases')
         ELSE /\ scoredDiseases' = <<>>
              /\ resp' = IF forwarded THEN medicalErrorResponse
                         ELSE unhandledRejection
  /\ pc' = "done"
  /\ UNCHANGED <<req, existing, chatResponse, conv, catalog, sessionVars, seedVars, chatVars, previous>>

(***************************************************************************)
(* MedicalAIService.analyzeMedicalQuery                                    *)
(***************************************************************************)
\* a caller calls the public method with its symptoms and severity
ReceiveAnalysis(symptoms, severity) ==
  /\ pc = "idle"
  /\ req' = [NoRequest EXCEPT !.kind = "analyzeMedicalQuery",
                              !.symptoms = List(symptoms),
                              !.painLevel = Number(severity)]
  /\ pc' = "analyzeMedicalQuery"
  /\ UNCHANGED <<resp, stages, existing, chatResponse, conv, catalog, sessionVars, seedVars, chatVars, previous, scoredDiseases>>

\* the analysis goes back to the caller
AnalyzeMedicalQuery ==
  /\ pc = "analyzeMedicalQuery"
  /\ resp' = analysisResult(analyzeMedicalQuery(req.symptoms.items, req.painLevel.v))
  /\ stages' = Append(stages, "analyzeMedicalQuery")
  /\ pc' = "done"
  /\ UNCHANGED <<req, existing, chatResponse, conv, catalog, sessionVars, seedVars, chatVars, previous, scoredDiseases>>

(***************************************************************************)
(* The same request once more                                              *)
(***************************************************************************)
NoPrevious ==
  [def |-> FALSE, resp |-> NoResponse, chatResponse |-> NoChatResponse,
   riskLevel |-> "none"]

\* the first handler of the route a request of this kind goes to
entryPoint(kind) ==
  IF kind = "chat" THEN "emergencyDetectionMiddleware" ELSE kind

\* the requests a caller sends twice: a message of one fragment, a search for
\* one symptom, an analysis
RepeatedSymptomLists ==
  { NoList, List(<<>>) } \cup { List(<<entry>>) : entry \in SymptomEntries }

sentTwice ==
  \/ req.kind = "chat" /\ req.message \in CoreMessages
  \/ /\ req.kind \in {"searchDiseasesBySymptoms", "searchBySymptoms"}
     /\ req.symptoms \in RepeatedSymptomLists
  \/ req.kind = "analyzeMedicalQuery"

\* the caller sends the request it was answered a second time: the answer of
\* the first time is kept for comparison, the stores stay as they are
RepeatRequest ==
  /\ pc = "done"
  /\ ~previous.def
  /\ sentTwice
  /\ previous' = [def |-> TRUE, resp |-> resp, chatResponse |-> chatResponse,
                  riskLevel |-> conv.riskLevel]
  /\ pc' = entryPoint(req.kind)
  /\ resp' = NoResponse
  /\ stages' = <<>>
  /\ existing' = NoConversation
  /\ chatResponse' = NoChatResponse
  /\ scoredDiseases' = <<>>
  /\ UNCHANGED <<req, conv, catalog, sessionVars, seedVars, chatVars>>

(***************************************************************************)
(* Sessions: the conversation table, the clock, concurrent requests        *)
(***************************************************************************)
\* the connections that send requests, each one request at a time
Procs == { 1, 2 }

\* the requests sent in one run
MaxRequests == 2

\* the clock stops at MaxHours
MaxHours == 48

\* a session is expired when more than 24 * 60 * 60 * 1000 ms have passed
SessionHours == 24

\* daysOld * 24 * 60 * 60 * 1000 of cleanupOldConversations
HoursPerDay == 24

\* the runs of the cleanup job in one run
MaxCleanups == 1

\* session ids med_<timestamp>_<hash>, made by SessionIdGenerator.generate at
\* the hour of their timestamp
SessionIds ==
  { [timestamp |-> 0, hash |-> "a"], [timestamp |-> 0, hash |-> "b"] }

NoSession == [timestamp |-> 0, hash |-> "none"]

\* the session of the two connections; the other one is somebody else's
RequestSessions == { sessionId \in SessionIds : sessionId.hash = "a" }

\* SessionIdGenerator.extractTimestamp, in hours
extractTimestamp(sessionId) == sessionId.timestamp

\* isExpired of the status route at the hour time
isExpired(sessionId, time) == (time - extractTimestamp(sessionId)) > SessionHours

\* a row of the conversation table
Row(conversation, lastActivity) ==
  [exists |-> conversation.exists,
   messages |-> conversation.messages,
   userSymptoms |-> conversation.userSymptoms,
   riskLevel |-> conversation.riskLevel,
   emergencyDetected |-> conversation.emergencyDetected,
   isActive |-> conversation.isActive,
   lastActivity |-> lastActivity]

\* prisma.conversation.findUnique finds nothing
NoRow == Row(NoConversation, 0)

\* userMessage and assistantMessage of updateConversation, for the request
\* with the number n
exchange(n) ==
  << [role |-> "user", request |-> n], [role |-> "assistant", request |-> n] >>

\* the rows earlier requests may have left in the table: none, one exchange
\* without an emergency, one exchange with an emergency
StoredRows ==
  { NoRow,
    Row([NoConversation EXCEPT !.exists = TRUE, !.messages = exchange(0)], 0),
    Row([NoConversation EXCEPT !.exists = TRUE, !.messages = exchange(0),
           !.riskLevel = "emergency", !.emergencyDetected = TRUE], 0) }

\* the tables a run starts from
StoredTables ==
  { rows \in [SessionIds -> StoredRows] :
      \A sessionId \in SessionIds :
        /\ sessionId \in RequestSessions => ~rows[sessionId].emergencyDetected
        /\ sessionId \notin RequestSessions => rows[sessionId].emergencyDetected }

\* saveConversation at the hour time: the upsert of conversationData, whose
\* messages are those of the conversation read before with the new exchange
saveConversation(stored, read, response, messages, time) ==
  Row([upsertConversation(stored, read, response) EXCEPT !.messages = messages],
      time)

\* conversation.update of endConversation at the hour time
endConversationUpdate(stored, time) ==
  [stored EXCEPT !.isActive = FALSE, !.lastActivity = time]

\* a variant of the cleanup in which the emergency flag keeps no row
cleanupIgnoringEmergency(rows, daysOld, time) ==
  [s \in DOMAIN rows |->
     IF rows[s].exists /\ rows[s].lastActivity < time - daysOld * HoursPerDay
     THEN NoRow ELSE rows[s]]

\* the table cleanupOldConversations(daysOld) leaves at the hour time
cleanupOldConversations(rows, daysOld, time) ==
  [s \in DOMAIN rows |->
     IF /\ rows[s].exists
        /\ rows[s].lastActivity < time - daysOld * HoursPerDay
        /\ ~rows[s].emergencyDetected
     THEN NoRow ELSE rows[s]]

\* result.count of deleteMany
deletedCount(before, after) ==
  Cardinality({ s \in DOMAIN before : before[s].exists /\ ~after[s].exists })

\* a variant of processMessage that takes the conversation history from the
\* store: an emergency found earlier in the session stays the decision
processMessageWithHistory(request, ai, messageId) ==
  LET sanitizedMessage == sanitize(request.message)
  IN  IF sanitizeThrows(request.message) THEN errorChatResponse(messageId)
      ELSE IF \/ detectEmergency(sanitizedMessage)
              \/ table[request.sessionId].emergencyDetected
      THEN handleEmergencyResponse(sanitizedMessage, messageId)
      ELSE IF callGeminiThrows(ai) THEN errorChatResponse(messageId)
      ELSE aiChatResponse(sanitizedMessage, ai, messageId)

\* MedicalAIService.processMessage for a ChatRequest and the outcome of its
\* Gemini call
processMessage(request, ai, messageId) ==
  LET sanitizedMessage == sanitize(request.message)
  IN  IF sanitizeThrows(request.message) THEN errorChatResponse(messageId)
      ELSE IF detectEmergency(sanitizedMessage)
      THEN handleEmergencyResponse(sanitizedMessage, messageId)
      ELSE IF callGeminiThrows(ai) THEN errorChatResponse(messageId)
      ELSE aiChatResponse(sanitizedMessage, ai, messageId)

\* what a chat request decides: the response without the message id, and the
\* risk level determineRiskLevel gives it
chatDecision(response) ==
  [chatSuccess(response) EXCEPT !.messageId = "none",
                                !.riskLevel = determineRiskLevel(response)]

\* res.status(404): 'Conversation not found'
notFoundResponse == [NoResponse EXCEPT !.status = 404, !.kind = "not_found"]

\* res.status(200) of endConversation
endedResponse(conversation) ==
  [NoResponse EXCEPT !.status = 200, !.kind = "ended",
     !.emergencyDetected = conversation.emergencyDetected,
     !.riskLevel = conversation.riskLevel]

\* res.status(200) of getConversationHistory
historyResponse(conversation) ==
  [NoResponse EXCEPT !.status = 200, !.kind = "history",
     !.emergencyDetected = conversation.emergencyDetected,
     !.riskLevel = conversation.riskLevel]

\* the data of the answer of the status route
NoStatus ==
  [isActive |-> FALSE, isExpired |-> FALSE, hasConversation |-> FALSE,
   messageCount |-> 0]

sessionStatus(conversation, sessionId, time) ==
  [isActive |-> (conversation.exists /\ conversation.isActive)
                /\ ~isExpired(sessionId, time),
   isExpired |-> isExpired(sessionId, time),
   hasConversation |-> conversation.exists,
   messageCount |-> Len(conversation.messages)]

statusResponse(conversation) ==
  [NoResponse EXCEPT !.status = 200, !.kind = "status",
     !.emergencyDetected = conversation.emergencyDetected,
     !.riskLevel = conversation.riskLevel]

\* the messages and the Gemini outcomes of the concurrent requests; the
\* messages pass the checks of the route, of the middleware and
\* of sendMessage
SessionMessages == { F_vomitoNegro, F_nauseas }

SessionAIOutcomes == { ai \in AIOutcomes : ai.ok /\ ai.long /\ ai.usage }

\* the message ids of this part, which does not tell them apart
SessionMessageIds == { "msg_1" }

\* a connection with no request
NoCall ==
  [pc |-> "idle", op |-> "none", request |-> 0, at |-> 0,
   sessionId |-> NoSession, message |-> <<>>, ai |-> CHOOSE ai \in AIOutcomes : ~ai.ok,
   existing |-> NoRow, chatResponse |-> NoChatResponse,
   resp |-> NoResponse, status |-> NoStatus, alone |-> NoResponse]

\* the connection can send its next request; the connections come into use
\* in their order
canSend(p) ==
  /\ calls[p].pc \in {"idle", "done"}
  /\ \A q \in Procs : q < p => calls[q].pc # "idle"
  /\ sent < MaxRequests

\* POST /api/chat/message arrives: sendMessage checks the format of the
\* session id and the message, and builds the ChatRequest with the sanitized
\* message
StartSendMessage(p, sessionId, message, ai) ==
  /\ canSend(p)
  /\ extractTimestamp(sessionId) <= now
  /\ sent' = sent + 1
  /\ LET request == [message |-> sanitize(message), sessionId |-> sessionId]
     IN  calls' = [calls EXCEPT ![p] =
           [NoCall EXCEPT !.pc = "getConversation", !.op = "sendMessage",
              !.request = sent + 1, !.at = now, !.sessionId = sessionId,
              !.message = request.message, !.ai = ai,
              !.alone = chatDecision(processMessage(request, ai, "none"))]]
  /\ UNCHANGED <<now, table, cleaned, requestVars, seedVars, chatVars>>

\* dbService.getConversation of sendMessage returns
GetConversationOf(p) ==
  /\ calls[p].pc = "getConversation"
  /\ calls' = [calls EXCEPT ![p].existing = table[calls[p].sessionId],
                            ![p].pc = "processMessage"]
  /\ UNCHANGED <<now, table, sent, cleaned, requestVars, seedVars, chatVars>>

\* medicalAI.processMessage returns
ProcessMessage(p, messageId) ==
  /\ calls[p].pc = "processMessage"
  /\ LET request == [message |-> calls[p].message,
                     sessionId |-> calls[p].sessionId]
     IN  calls' = [calls EXCEPT
           ![p].chatResponse = processMessage(request, calls[p].ai, messageId),
           ![p].pc = "updateConversation"]
  /\ UNCHANGED <<now, table, sent, cleaned, requestVars, seedVars, chatVars>>

\* updateConversation saves the conversation, and the response is written
UpdateConversationOf(p) ==
  /\ calls[p].pc = "updateConversation"
  /\ LET sessionId == calls[p].sessionId
         messages == calls[p].existing.messages \o exchange(calls[p].request)
     IN  table' = [table EXCEPT ![sessionId] =
           saveConversation(table[sessionId], calls[p].existing,
                            calls[p].chatResponse, messages, now)]
  /\ calls' = [calls EXCEPT ![p].resp = chatSuccess(calls[p].chatResponse),
                            ![p].pc = "done"]
  /\ UNCHANGED <<now, sent, cleaned, requestVars, seedVars, chatVars>>

\* POST /api/chat/end/:sessionId arrives
StartEndConversation(p, sessionId) ==
  /\ canSend(p)
  /\ extractTimestamp(sessionId) <= now
  /\ sent' = sent + 1
  /\ calls' = [calls EXCEPT ![p] =
       [NoCall EXCEPT !.pc = "endGetConversation", !.op = "endConversation",
          !.request = sent + 1, !.at = now, !.sessionId = sessionId]]
  /\ UNCHANGED <<now, table, cleaned, requestVars, seedVars, chatVars>>

\* dbService.getConversation of endConversation returns
EndGetConversation(p) ==
  /\ calls[p].pc = "endGetConversation"
  /\ LET conversation == table[calls[p].sessionId]
     IN  IF ~conversation.exists
         THEN calls' = [calls EXCEPT ![p].resp = notFoundResponse,
                                     ![p].pc = "done"]
         ELSE calls' = [calls EXCEPT ![p].existing = conversation,
                                     ![p].pc = "endUpdate"]
  /\ UNCHANGED <<now, table, sent, cleaned, requestVars, seedVars, chatVars>>

\* conversation.update of endConversation, and the response; the update
\* throws when the row is gone
EndUpdate(p) ==
  /\ calls[p].pc = "endUpdate"
  /\ LET sessionId == calls[p].sessionId
     IN  IF table[sessionId].exists
         THEN /\ table' = [table EXCEPT ![sessionId] =
                   endConversationUpdate(table[sessionId], now)]
              /\ calls' = [calls EXCEPT
                   ![p].resp = endedResponse(calls[p].existing),
                   ![p].pc = "done"]
         ELSE /\ calls' = [calls EXCEPT ![p].resp = errorResponse,
                                        ![p].pc = "done"]
              /\ UNCHANGED table
  /\ UNCHANGED <<now, sent, cleaned, requestVars, seedVars, chatVars>>

\* GET /api/chat/session/:sessionId/status
SessionStatus(p, sessionId) ==
  /\ canSend(p)
  /\ extractTimestamp(sessionId) <= now
  /\ sent' = sent + 1
  /\ calls' = [calls EXCEPT ![p] =
       [NoCall EXCEPT !.pc = "done", !.op = "status",
          !.request = sent + 1, !.at = now, !.sessionId = sessionId,
          !.status = sessionStatus(table[sessionId], sessionId, now),
          !.resp = statusResponse(table[sessionId])]]
  /\ UNCHANGED <<now, table, cleaned, requestVars, seedVars, chatVars>>

\* GET /api/chat/history/:sessionId
GetConversationHistory(p, sessionId) ==
  /\ canSend(p)
  /\ extractTimestamp(sessionId) <= now
  /\ sent' = sent + 1
  /\ calls' = [calls EXCEPT ![p] =
       [NoCall EXCEPT !.pc = "done", !.op = "history",
          !.request = sent + 1, !.at = now, !.sessionId = sessionId,
          !.resp = IF table[sessionId].exists
                   THEN historyResponse(table[sessionId])
                   ELSE notFoundResponse]]
  /\ UNCHANGED <<now, table, cleaned, requestVars, seedVars, chatVars>>

\* the cleanup job runs cleanupOldConversations(daysOld)
DaysOld == { 0, 1 }

NoCleanup == [runs |-> 0, daysOld |-> 0, count |-> 0]

CleanupOldConversations(daysOld) ==
  /\ cleaned.runs < MaxCleanups
  /\ table' = cleanupOldConversations(table, daysOld, now)
  /\ cleaned' = [runs |-> cleaned.runs + 1, daysOld |-> daysOld,
                 count |-> deletedCount(table, table')]
  /\ UNCHANGED <<now, calls, sent, requestVars, seedVars, chatVars>>

\* a day passes, between two requests
Tick ==
  /\ now + HoursPerDay <= MaxHours
  /\ \A p \in Procs : calls[p].pc \in {"idle", "done"}
  /\ now' = now + HoursPerDay
  /\ UNCHANGED <<table, calls, sent, cleaned, requestVars, seedVars, chatVars>>

(***************************************************************************)
(* seedDiseaseSymptomRelations                                             *)
(***************************************************************************)
\* diseaseSymptomRelations: the first symptoms of its first diseases
diseaseSymptomRelations ==
  << [diseaseName |-> "Gastritis",
      symptoms |-> << "Dolor abdominal", "Náuseas" >>],
     [diseaseName |-> "Reflujo Gastroesofágico (ERGE)",
      symptoms |-> << "Acidez estomacal", "Regurgitación" >>],
     [diseaseName |-> "Úlcera Péptica",
      symptoms |-> << "Dolor abdominal", "Indigestión" >>] >>

\* the names the list refers to
relationDiseaseNames ==
  { diseaseSymptomRelations[i].diseaseName : i \in DOMAIN diseaseSymptomRelations }

relationSymptomNames ==
  UNION { Range(diseaseSymptomRelations[i].symptoms) :
            i \in DOMAIN diseaseSymptomRelations }

\* the seeding before its first relation
SeedStart == [pc |-> "relation", i |-> 1, j |-> 1]

\* a variant in which a disease that is not found ends the seeding with the
\* error thrown
SeedRelationThrowing ==
  /\ seedAt.pc = "relation"
  /\ seedAt.i <= Len(diseaseSymptomRelations)
  /\ LET relation == diseaseSymptomRelations[seedAt.i]
     IN  IF relation.diseaseName \notin seededDiseases
         THEN /\ seedLog' = Append(seedLog,
                   [level |-> "error", about |-> <<relation.diseaseName>>])
              /\ seedAt' = [seedAt EXCEPT !.pc = "threw"]
         ELSE /\ seedAt' = [seedAt EXCEPT !.pc = "symptom", !.j = 1]
              /\ UNCHANGED seedLog
  /\ UNCHANGED <<seededDiseases, seededSymptoms, createdRelations, requestVars, sessionVars, chatVars>>

\* the head of the outer loop: diseases.find, the warning and continue
SeedRelation ==
  /\ seedAt.pc = "relation"
  /\ seedAt.i <= Len(diseaseSymptomRelations)
  /\ LET relation == diseaseSymptomRelations[seedAt.i]
     IN  IF relation.diseaseName \notin seededDiseases
         THEN /\ seedLog' = Append(seedLog,
                   [level |-> "warn", about |-> <<relation.diseaseName>>])
              /\ seedAt' = [seedAt EXCEPT !.i = seedAt.i + 1]
         ELSE /\ seedAt' = [seedAt EXCEPT !.pc = "symptom", !.j = 1]
              /\ UNCHANGED seedLog
  /\ UNCHANGED <<seededDiseases, seededSymptoms, createdRelations, requestVars, sessionVars, chatVars>>

\* one round of the inner loop: symptoms.find, the warning and continue, or
\* diseaseSymptomRel.create, whose failure is caught and logged (ok: the
\* create succeeds)
SeedSymptom(ok) ==
  /\ seedAt.pc = "symptom"
  /\ LET relation == diseaseSymptomRelations[seedAt.i]
     IN  IF seedAt.j > Len(relation.symptoms)
         THEN /\ seedAt' = [seedAt EXCEPT !.pc = "relation", !.i = seedAt.i + 1]
              /\ UNCHANGED <<createdRelations, seedLog>>
         ELSE LET symptomName == relation.symptoms[seedAt.j]
                  pair == <<relation.diseaseName, symptomName>>
              IN  /\ seedAt' = [seedAt EXCEPT !.j = seedAt.j + 1]
                  /\ IF symptomName \notin seededSymptoms
                     THEN /\ seedLog' = Append(seedLog,
                               [level |-> "warn", about |-> <<symptomName>>])
                          /\ UNCHANGED createdRelations
                     ELSE IF ok
                     THEN /\ createdRelations' = Append(createdRelations, pair)
                          /\ UNCHANGED seedLog
                     ELSE /\ seedLog' = Append(seedLog,
                               [level |-> "error", about |-> pair])
                          /\ UNCHANGED createdRelations
  /\ UNCHANGED <<seededDiseases, seededSymptoms, requestVars, sessionVars, chatVars>>

\* the loops are over: the statistics, and return createdRelations
SeedReturn ==
  /\ seedAt.pc = "relation"
  /\ seedAt.i > Len(diseaseSymptomRelations)
  /\ seedAt' = [seedAt EXCEPT !.pc = "done"]
  /\ UNCHANGED <<seededDiseases, seededSymptoms, createdRelations, seedLog, requestVars,
                 sessionVars, chatVars>>

(***************************************************************************)
(* The chat of the frontend: the chat store (stores/index.ts), the useChat *)
(* hook (hooks/index.ts) and the ChatInterface component that starts the   *)
(* session when it is mounted                                              *)
(***************************************************************************)
MaxStarts == 2
MaxLoads == 1
MaxSubmits == 2

\* ChatSession | null, and the sessions POST /chat/session answers with
NullSession == [id |-> "null"]

ChatSessions == {[id |-> "session_1"], [id |-> "session_2"]}

\* the chat store as created
InitialChatStore ==
  [currentSession |-> NullSession, messages |-> <<>>, isLoading |-> FALSE,
   isTyping |-> FALSE, emergencyMode |-> FALSE]

\* the actions of the chat store, each as the state it sets
setCurrentSession(state, session) == [state EXCEPT !.currentSession = session]

addMessage(state, message) ==
  [state EXCEPT !.messages = Append(@, message)]

setMessages(state, messages) == [state EXCEPT !.messages = messages]

setLoading(state, loading) == [state EXCEPT !.isLoading = loading]

setTyping(state, typing) == [state EXCEPT !.isTyping = typing]

clearChat(state) ==
  [state EXCEPT !.currentSession = NullSession, !.messages = <<>>,
                !.emergencyMode = FALSE, !.isTyping = FALSE]

\* useState<string | null>(null) of the hook
NoError == "null"

\* what a call of apiService ends with: the ApiResponse of the server, or
\* the error axios rejects with (the error of the response body, or a code)
ApiResponse(success, data, error) ==
  [kind |-> "response", success |-> success, data |-> data, error |-> error,
   code |-> ""]

ApiRejection(error, code) ==
  [kind |-> "rejected", success |-> FALSE, data |-> NullSession,
   error |-> error, code |-> code]

ApiFailures ==
  { ApiResponse(FALSE, NullSession, "Servicio no disponible"),
    ApiRejection("Demasiadas consultas médicas", ""),
    ApiRejection("", "ECONNREFUSED") }

CreateSessionOutcomes ==
  { ApiResponse(TRUE, session, "") : session \in ChatSessions } \cup ApiFailures

\* the error the hook catches: the one axios rejected with, or the
\* new Error(response.error || fallback) thrown for a response without success
caught(outcome) ==
  IF outcome.kind = "rejected" THEN outcome
  ELSE ApiRejection("", "")

handleApiError(error) ==
  IF error.error # "" THEN error.error
  ELSE IF error.code = "ECONNREFUSED"
         THEN "No se puede conectar al servidor médico. Verifica tu conexión."
  ELSE IF error.code = "ECONNABORTED"
         THEN "La solicitud tardó demasiado tiempo. Intenta nuevamente."
  ELSE "Ocurrió un error inesperado. Contacta al soporte técnico."

\* a call of startNewSession: awaiting createChatSession, or returned
StartCall(callPc, outcome, returned) ==
  [pc |-> callPc, outcome |-> outcome, returned |-> returned]

NoOutcome == ApiRejection("", "none")

\* the chat histories GET /chat/history answers with
HistoryMessage(id, isFromUser) ==
  [id |-> id, sessionId |-> "session_0", isFromUser |-> isFromUser,
   messageType |-> "TEXT", content |-> IF isFromUser THEN F_nauseas ELSE F_vomitoNegro]

ChatHistories ==
  { <<>>, <<HistoryMessage("m1", TRUE)>>,
    <<HistoryMessage("m1", TRUE), HistoryMessage("m2", FALSE)>> }

HistoryOutcomes ==
  { ApiResponse(TRUE, history, "") : history \in ChatHistories } \cup ApiFailures

NoHistoryCall == [pc |-> "idle", made |-> 0]

\* the contents the component hands to sendMessage
SubmitContents == { <<>>, <<" ">>, F_nauseas }

\* ChatInterface shows "Iniciando consulta médica..." and disables its input
\* for as long as there is no current session
initializing == chatStore.currentSession = NullSession

\* useEffect of ChatInterface: without a current session, a component that
\* has not started one calls startNewSession, which sets isLoading and awaits
\* apiService.createChatSession
InitializeSession ==
  /\ chatStore.currentSession = NullSession
  /\ ~isInitialized
  /\ Len(startCalls) < MaxStarts
  /\ chatStore' = setLoading(chatStore, TRUE)
  /\ startCalls' = Append(startCalls, StartCall("awaiting", NoOutcome, NullSession))
  /\ isInitialized' = TRUE
  /\ UNCHANGED <<chatError, notifications, historyCall, submitted, requestVars,
                 sessionVars, seedVars>>

\* the component is unmounted and mounted again: its state is new, the
\* stores and the calls in flight are kept
Remount ==
  /\ isInitialized
  /\ Len(startCalls) < MaxStarts
  /\ isInitialized' = FALSE
  /\ UNCHANGED <<chatStore, chatError, notifications, startCalls, historyCall,
                 submitted, requestVars, sessionVars, seedVars>>

\* startNewSession after its await: setCurrentSession, clearChat and the
\* session returned, or the error kept and notified and null returned;
\* setLoading(false) in both
CreateChatSessionReturns(i, outcome) ==
  /\ i \in DOMAIN startCalls
  /\ startCalls[i].pc = "awaiting"
  /\ IF outcome.kind = "response" /\ outcome.success
       THEN /\ chatStore' =
                 setLoading(clearChat(setCurrentSession(chatStore, outcome.data)),
                            FALSE)
            /\ startCalls' =
                 [startCalls EXCEPT ![i] = StartCall("returned", outcome, outcome.data)]
            /\ UNCHANGED <<chatError, notifications>>
       ELSE LET errorMsg == handleApiError(caught(outcome))
            IN  /\ chatError' = errorMsg
                /\ notifications' =
                     Append(notifications,
                            [type |-> "error", title |-> "Error de Conexión",
                             message |-> errorMsg])
                /\ chatStore' = setLoading(chatStore, FALSE)
                /\ startCalls' =
                     [startCalls EXCEPT ![i] = StartCall("returned", outcome, NullSession)]
  /\ UNCHANGED <<isInitialized, historyCall, submitted, requestVars, sessionVars,
                 seedVars>>

\* sendMessage of the hook: nothing without a current session or without
\* content; otherwise isLoading, isTyping and the message of the user, before
\* it awaits apiService.sendMessage
SendMessageOf(content) ==
  /\ Len(submitted) < MaxSubmits
  /\ IF chatStore.currentSession = NullSession \/ trim(content) = <<>>
       THEN /\ submitted' = Append(submitted, [content |-> content, sent |-> FALSE])
            /\ UNCHANGED chatStore
       ELSE /\ chatStore' =
                 addMessage(setTyping(setLoading(chatStore, TRUE), TRUE),
                            [id |-> "now", sessionId |-> chatStore.currentSession.id,
                             isFromUser |-> TRUE, messageType |-> "TEXT",
                             content |-> trim(content)])
            /\ submitted' = Append(submitted, [content |-> content, sent |-> TRUE])
  /\ UNCHANGED <<chatError, notifications, isInitialized, startCalls, historyCall,
                 requestVars, sessionVars, seedVars>>

\* loadChatHistory of the hook: sets isLoading and awaits
\* apiService.getChatHistory
LoadChatHistory ==
  /\ historyCall.pc = "idle"
  /\ historyCall.made < MaxLoads
  /\ chatStore' = setLoading(chatStore, TRUE)
  /\ historyCall' = [pc |-> "awaiting", made |-> historyCall.made + 1]
  /\ UNCHANGED <<chatError, notifications, isInitialized, startCalls, submitted,
                 requestVars, sessionVars, seedVars>>

\* loadChatHistory after its await: setMessages, or the error kept;
\* setLoading(false) in both
LoadChatHistoryReturns(outcome) ==
  /\ historyCall.pc = "awaiting"
  /\ IF outcome.kind = "response" /\ outcome.success
       THEN /\ chatStore' = setLoading(setMessages(chatStore, outcome.data), FALSE)
            /\ UNCHANGED chatError
       ELSE /\ chatError' = handleApiError(caught(outcome))
            /\ chatStore' = setLoading(chatStore, FALSE)
  /\ historyCall' = [historyCall EXCEPT !.pc = "idle"]
  /\ UNCHANGED <<notifications, isInitialized, startCalls, submitted, requestVars,
                 sessionVars, seedVars>>

\* clearError of the hook, the "Reintentar" button of the error shown
ClearError ==
  /\ chatError # NoError
  /\ chatError' = NoError
  /\ UNCHANGED <<chatStore, notifications, isInitialized, startCalls, historyCall,
                 submitted, requestVars, sessionVars, seedVars>>

\* the chat as the page loads it
ChatCreated ==
  /\ chatStore = InitialChatStore
  /\ chatError = NoError
  /\ notifications = <<>>
  /\ isInitialized = FALSE
  /\ startCalls = <<>>
  /\ historyCall = NoHistoryCall
  /\ submitted = <<>>

(***************************************************************************)
(* Specification                                                           *)
(***************************************************************************)
Init ==
  /\ pc = "idle"
  /\ req = NoRequest
  /\ resp = NoResponse
  /\ stages = <<>>
  /\ existing = NoConversation
  /\ chatResponse = NoChatResponse
  /\ conv \in StoredConversations
  /\ catalog = DiseaseRows
  /\ scoredDiseases = <<>>
  /\ previous = NoPrevious
  /\ now = 0
  /\ table = [sessionId \in SessionIds |-> NoRow]
  /\ calls = [p \in Procs |-> NoCall]
  /\ sent = 0
  /\ cleaned = NoCleanup
  /\ seededDiseases = relationDiseaseNames
  /\ seededSymptoms = relationSymptomNames
  /\ seedAt = SeedStart
  /\ createdRelations = <<>>
  /\ seedLog = <<>>
  /\ ChatCreated

Next ==
  \/ \E body \in ChatRequests : ReceiveChatMessage(body[1], body[2])
  \/ EmergencyDetectionMiddleware
  \/ SendMessage
  \/ \E ok \in BOOLEAN, messageId \in MessageIds : GetConversation(ok, messageId)
  \/ \E ai \in AIOutcomes, messageId \in MessageIds : CallGemini(ai, messageId)
  \/ \E ok \in BOOLEAN : HandleEmergencyDetection(ok)
  \/ \E ok \in BOOLEAN : UpdateConversation(ok)
  \/ \E ok \in BOOLEAN : LogActivity(ok)
  \/ \E symptoms \in SymptomLists :
       ReceiveSearch("searchDiseasesBySymptoms", symptoms, NoNumber)
  \/ \E symptoms \in SymptomLists \ {NoList}, painLevel \in PainLevels :
       ReceiveSearch("searchBySymptoms", symptoms, painLevel)
  \/ SearchDiseasesBySymptoms
  \/ \E ok \in BOOLEAN : FindDiseasesBySymptoms(ok)
  \/ \E ok, forwarded \in BOOLEAN : SearchBySymptoms(ok, forwarded)
  \/ \E symptoms \in AnalysisSymptoms, severity \in Severities :
       ReceiveAnalysis(symptoms, severity)
  \/ AnalyzeMedicalQuery
  \/ RepeatRequest

Spec == Init /\ [][Next]_vars

\* the sessions: requests of two connections handled concurrently, the
\* cleanup job and the clock
InitSessions ==
  /\ pc = "idle"
  /\ req = NoRequest
  /\ resp = NoResponse
  /\ stages = <<>>
  /\ existing = NoConversation
  /\ chatResponse = NoChatResponse
  /\ conv = NoConversation
  /\ catalog = DiseaseRows
  /\ scoredDiseases = <<>>
  /\ previous = NoPrevious
  /\ now = 0
  /\ table \in StoredTables
  /\ calls = [p \in Procs |-> NoCall]
  /\ sent = 0
  /\ cleaned = NoCleanup
  /\ seededDiseases = relationDiseaseNames
  /\ seededSymptoms = relationSymptomNames
  /\ seedAt = SeedStart
  /\ createdRelations = <<>>
  /\ seedLog = <<>>
  /\ ChatCreated

NextSessions ==
  \/ \E p \in Procs, sessionId \in RequestSessions, message \in SessionMessages,
        ai \in SessionAIOutcomes : StartSendMessage(p, sessionId, message, ai)
  \/ \E p \in Procs : GetConversationOf(p)
  \/ \E p \in Procs, messageId \in SessionMessageIds : ProcessMessage(p, messageId)
  \/ \E p \in Procs : UpdateConversationOf(p)
  \/ \E p \in Procs, sessionId \in RequestSessions : StartEndConversation(p, sessionId)
  \/ \E p \in Procs : EndGetConversation(p)
  \/ \E p \in Procs : EndUpdate(p)
  \/ \E p \in Procs, sessionId \in RequestSessions : SessionStatus(p, sessionId)
  \/ \E p \in Procs, sessionId \in RequestSessions : GetConversationHistory(p, sessionId)
  \/ \E daysOld \in DaysOld : CleanupOldConversations(daysOld)
  \/ Tick

SpecSessions == InitSessions /\ [][NextSessions]_vars

\* the seeding of the relations, for every choice of the diseases and the
\* symptoms that were seeded before
InitSeed ==
  /\ pc = "idle"
  /\ req = NoRequest
  /\ resp = NoResponse
  /\ stages = <<>>
  /\ existing = NoConversation
  /\ chatResponse = NoChatResponse
  /\ conv = NoConversation
  /\ catalog = DiseaseRows
  /\ scoredDiseases = <<>>
  /\ previous = NoPrevious
  /\ now = 0
  /\ table = [sessionId \in SessionIds |-> NoRow]
  /\ calls = [p \in Procs |-> NoCall]
  /\ sent = 0
  /\ cleaned = NoCleanup
  /\ seededDiseases \in SUBSET relationDiseaseNames
  /\ seededSymptoms \in SUBSET relationSymptomNames
  /\ seedAt = SeedStart
  /\ createdRelations = <<>>
  /\ seedLog = <<>>
  /\ ChatCreated

NextSeed ==
  \/ SeedRelation
  \/ \E ok \in BOOLEAN : SeedSymptom(ok)
  \/ SeedReturn

SpecSeed == InitSeed /\ [][NextSeed]_vars

\* the chat of the frontend: the component mounted, the calls of the hook
\* and the answers of the server to them
InitChat ==
  /\ pc = "idle"
  /\ req = NoRequest
  /\ resp = NoResponse
  /\ stages = <<>>
  /\ existing = NoConversation
  /\ chatResponse = NoChatResponse
  /\ conv = NoConversation
  /\ catalog = DiseaseRows
  /\ scoredDiseases = <<>>
  /\ previous = NoPrevious
  /\ now = 0
  /\ table = [sessionId \in SessionIds |-> NoRow]
  /\ calls = [p \in Procs |-> NoCall]
  /\ sent = 0
  /\ cleaned = NoCleanup
  /\ seededDiseases = relationDiseaseNames
  /\ seededSymptoms = relationSymptomNames
  /\ seedAt = SeedStart
  /\ createdRelations = <<>>
  /\ seedLog = <<>>
  /\ ChatCreated

NextChat ==
  \/ InitializeSession
  \/ Remount
  \/ \E i \in 1..MaxStarts, outcome \in CreateSessionOutcomes :
       CreateChatSessionReturns(i, outcome)
  \/ \E content \in SubmitContents : SendMessageOf(content)
  \/ LoadChatHistory
  \/ \E outcome \in HistoryOutcomes : LoadChatHistoryReturns(outcome)
  \/ ClearError

SpecChat == InitChat /\ [][NextChat]_vars

(***************************************************************************)
(* Properties                                                              *)
(***************************************************************************)
\* the phrases of a list that occur in the lowercased text
phrasesIn(list, text) ==
  { list[k] : k \in { i \in 1..Len(list) :
                        includes(toLowerCase(text), toLowerCase(list[i])) } }

\* a chat request has ended
ChatDone == pc = "done" /\ req.kind = "chat"

\* a store or log call of the request failed
collaboratorFailed ==
  \/ stages = <<"getConversation">>
  \/ "saveConversationFailed" \in Range(stages)
  \/ "logActivityFailed" \in Range(stages)

\* the request ended with an emergency decision: the chat response with the
\* emergency flag and the stored risk level emergency, or the emergency
\* response of the middleware
emergencyDecision ==
  \/ resp.kind = "emergency_error"
  \/ /\ resp.status = 200
     /\ resp.emergencyDetected
     /\ conv.riskLevel = "emergency"

\* C1: every chat message whose text contains a critical emergency phrase
\* ends with an emergency decision, whatever else the text contains and
\* whatever user context comes with it (every store and log call succeeding).
C1_CriticalPhraseYieldsEmergency ==
  ( /\ ChatDone
    /\ req.message.type = "string"
    /\ phrasesIn(CRITICAL_EMERGENCY_KEYWORDS, req.message.text) # {}
    /\ ~collaboratorFailed )
  => emergencyDecision

\* the stages the emergency check has to come before
laterStages ==
  { "extractSymptoms", "callGemini", "validateMedicalResponse",
    "determineRiskLevel" }

\* the emergency check of the service ran before every other stage that ran
emergencyCheckFirst ==
  \A i \in 1..Len(stages) :
    stages[i] \in laterStages =>
      \E j \in 1..(i - 1) : stages[j] = "detectEmergency"

\* the service found an emergency in the message of the request
emergencyFound ==
  /\ "detectEmergency" \in Range(stages)
  /\ chatResponse.present
  /\ chatResponse.emergencyDetected

\* C2: in every processing of a message the emergency check runs before the
\* other stages, and once it is positive the request ends with the emergency
\* decision: no later stage and no error path turns it into another one.
C2_EmergencyFirstAndNeverDowngraded ==
  /\ req.kind = "chat" => emergencyCheckFirst
  /\ (ChatDone /\ emergencyFound) => emergencyDecision

\* the list has every element once
noDuplicates(list) ==
  \A i, j \in 1..Len(list) : list[i] = list[j] => i = j

\* C3: each detector reports exactly the phrases of its fixed list that occur
\* in the lowercased text it was given (all of them, not only the first), and
\* it flags an emergency if and only if at least one occurs.
C3_MatchingIsExhaustive ==
  /\ ( /\ req.kind = "chat"
       /\ "detectEmergency" \in Range(stages)
       /\ pc \in {"handleEmergencyDetection", "callGemini"} )
     => LET phrases == phrasesIn(CRITICAL_EMERGENCY_KEYWORDS, serviceMessage)
        IN  /\ (pc = "handleEmergencyDetection") <=> (phrases # {})
            /\ pc = "handleEmergencyDetection" =>
                 /\ chatResponse.emergencyDetected
                 /\ Range(chatResponse.symptomsExtracted) = phrases
                 /\ noDuplicates(chatResponse.symptomsExtracted)
  /\ ( /\ req.kind = "chat"
       /\ req.message.type = "string"
       /\ pc # "emergencyDetectionMiddleware" )
     => LET phrases == phrasesIn(criticalEmergencyKeywords, req.message.text)
        IN  /\ (resp.kind = "emergency_error") <=> (phrases # {})
            /\ resp.kind = "emergency_error" =>
                 /\ Range(resp.detectedKeywords) = phrases
                 /\ noDuplicates(resp.detectedKeywords)

\* the service reported two phrases for one message
C3_Witness ==
  /\ pc = "handleEmergencyDetection"
  /\ Len(chatResponse.symptomsExtracted) >= 2
  /\ Range(chatResponse.symptomsExtracted) =
       phrasesIn(CRITICAL_EMERGENCY_KEYWORDS, serviceMessage)

\* a search of the handler ended with the 200 response
Answered(handler) ==
  pc = "done" /\ req.kind = handler /\ resp.status = 200 /\ resp.kind = "search"

\* score a is at most score b (both real fractions)
scoreAtMost(a, b) == a.num * b.den <= b.num * a.den

scoreEqual(a, b) == a.num * b.den = b.num * a.den

\* rank of a disease severity: emergency > severe > moderate > mild
severityRank(level) ==
  CASE level = "emergency" -> 4 [] level = "severe" -> 3
    [] level = "moderate" -> 2 [] level = "mild" -> 1

\* rank of a candidate's urgency: immediate > urgent > moderate > low
urgencyRank(level) ==
  CASE level = "immediate" -> 4 [] level = "urgent" -> 3
    [] level = "moderate" -> 2 [] level = "low" -> 1

\* candidate a may stand before candidate b: higher score, or the same score
\* and no lower severity
scoreThenSeverity(a, b) ==
  /\ scoreAtMost(b.matchScore, a.matchScore)
  /\ scoreEqual(a.matchScore, b.matchScore) =>
       severityRank(a.severityLevel) >= severityRank(b.severityLevel)

\* candidate a may stand before candidate b: higher urgency, or the same
\* urgency and no lower score
urgencyThenScore(a, b) ==
  /\ urgencyRank(a.urgencyLevel) >= urgencyRank(b.urgencyLevel)
  /\ a.urgencyLevel = b.urgencyLevel => scoreAtMost(b.matchScore, a.matchScore)

omitted == Range(scoredDiseases) \ Range(resp.candidates)

rowsNamed(name) == { k \in 1..Len(catalog) : catalog[k].name = name }

overlap(a, b) == includes(a, b) \/ includes(b, a)

\* the symptoms of the search as the handler compares them
searchedSymptoms ==
  IF req.kind = "searchDiseasesBySymptoms"
  THEN { toLowerCase(trim(req.symptoms.items[i].text)) :
           i \in { k \in 1..Len(req.symptoms.items) :
                     /\ req.symptoms.items[k].type = "string"
                     /\ trim(req.symptoms.items[k].text) # <<>> } }
  ELSE { trim(toLowerCase(req.symptoms.items[i].text)) :
           i \in 1..Len(req.symptoms.items) }

\* how many symptoms of the disease the search matches
matchedOfDisease(disease) ==
  Cardinality({ k \in 1..Len(disease.symptoms) :
                  \E symptom \in searchedSymptoms :
                    overlap(toLowerCase(disease.symptoms[k]), symptom) })

\* how many symptoms of the search match the disease
matchedOfSearch(disease) ==
  Cardinality({ i \in 1..Len(req.symptoms.items) :
                  \E k \in 1..Len(disease.symptoms) :
                    overlap(toLowerCase(disease.symptoms[k]),
                            trim(toLowerCase(req.symptoms.items[i].text))) })

\* the row of the table a candidate was made from
rowOf(candidate) == catalog[CHOOSE k \in rowsNamed(candidate.name) : TRUE]

\* the score is matched / total of the disease's symptoms, from 0 to 1
fractionOfDisease(candidate) ==
  LET disease == rowOf(candidate)
  IN  /\ candidate.matchScore.den > 0
      /\ candidate.matchScore.num * Len(disease.symptoms)
           = matchedOfDisease(disease) * candidate.matchScore.den
      /\ 0 <= candidate.matchScore.num
      /\ candidate.matchScore.num <= candidate.matchScore.den

\* the score is the whole number nearest to 100 * matched / asked of the
\* symptoms of the search, from 0 to 100
percentOfSearch(candidate) ==
  LET matched == matchedOfSearch(rowOf(candidate))
      asked == Len(req.symptoms.items)
      percent == candidate.matchScore.num
  IN  /\ candidate.matchScore.den = 1
      /\ percent \in 0..100
      /\ 2 * asked * percent <= 200 * matched + asked
      /\ 200 * matched + asked < 2 * asked * (percent + 1)

\* C7 as stated: in both searches the matchScore of every candidate is the
\* number of the disease's symptoms the input matches divided by the number
\* of symptoms of the disease, a value from 0 to 1.
C7_ScoreIsFractionOfDisease ==
  (pc = "done" /\ resp.kind = "search") =>
    \A i \in 1..Len(resp.candidates) : fractionOfDisease(resp.candidates[i])

\* C7 amended: in searchDiseasesBySymptoms the matchScore is the number of
\* the disease's symptoms the input matches divided by the number of symptoms
\* of the disease, above 0 and at most 1; in searchBySymptoms it is the
\* percentage of the symptoms of the search that match the disease, rounded
\* to a whole number from 0 to 100.
C7_ScoreOfEachSearch ==
  /\ Answered("searchDiseasesBySymptoms") =>
       \A i \in 1..Len(resp.candidates) :
         /\ fractionOfDisease(resp.candidates[i])
         /\ resp.candidates[i].matchScore.num > 0
  /\ Answered("searchBySymptoms") =>
       \A i \in 1..Len(resp.candidates) : percentOfSearch(resp.candidates[i])

\* searchDiseasesBySymptoms returned a candidate that matches a part of the
\* disease's symptoms, for a search with another number of symptoms
C7_Witness ==
  /\ Answered("searchDiseasesBySymptoms")
  /\ \E i \in 1..Len(resp.candidates) :
       /\ resp.candidates[i].matchScore.num < resp.candidates[i].matchScore.den
       /\ resp.candidates[i].totalSymptoms # Cardinality(searchedSymptoms)

\* the search with the empty symptom list, and the chat message with the
\* empty text
emptySearch ==
  req.kind = "searchDiseasesBySymptoms" /\ req.symptoms = List(<<>>)

emptyMessage == req.kind = "chat" /\ req.message = Str(<<>>)

C9_NoExceptionEscapes ==
  pc = "done" => resp.kind \notin {"unhandled", "medical_error"}

\* an entry of a symptom list that is no string or shorter than 2 characters
invalidEntry(entry) == entry.type # "string" \/ Len(trim(entry.text)) < 2

invalidList(symptoms) ==
  /\ symptoms.def
  /\ \/ Len(symptoms.items) > 20
     \/ \E i \in 1..Len(symptoms.items) : invalidEntry(symptoms.items[i])

\* the request carries an input the interface declares invalid
invalidInput ==
  \/ req.kind = "searchDiseasesBySymptoms" /\ invalidList(req.symptoms)
  \/ /\ req.kind = "chat"
     /\ \/ req.message.type = "number"
        \/ /\ req.userContext.def
           /\ \/ invalidList(req.userContext.symptoms)
              \/ /\ req.userContext.painLevel.def
                 /\ req.userContext.painLevel.v \notin 1..10

\* C10: a request with an invalid input is refused before any stage runs (no
\* lookup, no AI call, no store); it is never answered from the rest of the
\* input with the invalid part dropped.
C10_InvalidInputIsRefused ==
  (pc = "done" /\ invalidInput) =>
    /\ resp.status # 200
    /\ Range(stages) \subseteq {"validationError", "middlewareEmergency"}

\* a check of a handler refused the request with a validation error
validationFailed == pc = "done" /\ "validationError" \in Range(stages)

\* C11: every validation failure raised while a chat message or a symptom
\* search is handled reaches the caller as a response of the 4xx class,
\* never of the 5xx class.
C11_ValidationFailureIs4xx ==
  validationFailed => resp.status \in 400..499

\* a symptom of the request holds a phrase of the emergencySymptoms list
reportsEmergencySymptom ==
  \E i \in 1..Len(req.symptoms.items) :
    /\ req.symptoms.items[i].type = "string"
    /\ \E k \in 1..Len(emergencySymptoms) :
         includes(toLowerCase(req.symptoms.items[i].text), emergencySymptoms[k])

\* the pain level the request reports: in the userContext of a chat message,
\* in the body of a search, as the severity of an analysis
painLevelOfRequest ==
  IF req.kind = "chat" THEN req.userContext.painLevel ELSE req.painLevel

painAtLeast(n) == painLevelOfRequest.def /\ painLevelOfRequest.v >= n

emergencySymptomOrPain == reportsEmergencySymptom \/ painAtLeast(8)

\* a chat message was answered with a decision that is no emergency
ChatAnsweredWithoutEmergency ==
  ChatDone /\ resp.status = 200 /\ ~resp.emergencyDetected

\* C12: when no emergency phrase is detected and a reported symptom is an
\* emergency symptom or the pain level is at least 8, the decision is risk
\* level high with urgency level immediate, whatever the matched diseases:
\* for the analysis both levels, for the candidates of searchBySymptoms their
\* urgency level, for searchDiseasesBySymptoms its one level (at least high),
\* for a chat message the risk level stored for the conversation.
C12_EmergencySymptomOrPainIsHighImmediate ==
  (pc = "done" /\ emergencySymptomOrPain) =>
    /\ req.kind = "analyzeMedicalQuery" =>
         resp.riskLevel = "high" /\ resp.urgencyLevel = "immediate"
    /\ Answered("searchBySymptoms") =>
         \A i \in 1..Len(resp.candidates) :
           resp.candidates[i].urgencyLevel = "immediate"
    /\ Answered("searchDiseasesBySymptoms") =>
         resp.urgencyLevel \in {"high", "emergency"}
    /\ ChatAnsweredWithoutEmergency => conv.riskLevel = "high"

\* the first candidate of the answer is a disease of severity severe
topCandidateSevere ==
  Len(resp.candidates) > 0 /\ resp.candidates[1].severityLevel = "severe"

\* C13 as stated: when neither the emergency rule nor the rule of the
\* emergency symptom and the pain level fires, the decision is high / urgent
\* exactly when the first candidate is of severity severe; a severe disease
\* further down the list does not raise it.
C13_HighExactlyWhenTopCandidateSevere ==
  ~emergencySymptomOrPain =>
    /\ Answered("searchDiseasesBySymptoms") =>
         (resp.urgencyLevel = "high" <=> topCandidateSevere)
    /\ (Answered("searchBySymptoms") /\ Len(resp.candidates) > 0) =>
         (resp.candidates[1].urgencyLevel = "urgent" <=> topCandidateSevere)

\* C13 amended: the level of searchDiseasesBySymptoms is high exactly when
\* some returned candidate, at any rank, is of severity severe and none is of
\* severity emergency (then it is emergency); in searchBySymptoms, when the
\* rule of the emergency symptom and the pain level does not fire, a
\* candidate is urgent exactly when its own disease is of severity severe or
\* of category emergency.
C13_HighWhenAnyCandidateSevere ==
  /\ Answered("searchDiseasesBySymptoms") =>
       /\ resp.urgencyLevel = "emergency" <=>
            \E i \in 1..Len(resp.candidates) :
              resp.candidates[i].severityLevel = "emergency"
       /\ resp.urgencyLevel = "high" <=>
            /\ \E i \in 1..Len(resp.candidates) :
                 resp.candidates[i].severityLevel = "severe"
            /\ \A i \in 1..Len(resp.candidates) :
                 resp.candidates[i].severityLevel # "emergency"
  /\ (Answered("searchBySymptoms") /\ ~emergencySymptomOrPain) =>
       \A i \in 1..Len(resp.candidates) :
         resp.candidates[i].urgencyLevel = "urgent" <=>
           \/ resp.candidates[i].severityLevel = "severe"
           \/ resp.candidates[i].category = "emergency"

\* a search whose first candidate is mild, answered high because of a severe
\* disease further down the list
C13_Witness ==
  /\ Answered("searchDiseasesBySymptoms")
  /\ ~emergencySymptomOrPain
  /\ resp.urgencyLevel = "high"
  /\ Len(resp.candidates) > 1
  /\ resp.candidates[1].severityLevel = "mild"
  /\ \E i \in 2..Len(resp.candidates) : resp.candidates[i].severityLevel = "severe"

\* none of the earlier rules fires: no emergency symptom, a pain level below
\* 6 or none, and no candidate or a first candidate of severity mild
noEarlierRule ==
  /\ ~emergencySymptomOrPain
  /\ ~painAtLeast(6)
  /\ \/ Len(resp.candidates) = 0
     \/ resp.candidates[1].severityLevel = "mild"

\* C14 as stated: when no earlier rule fires the decision falls through to
\* risk level low with urgency level routine: the lowest level of either
\* search, low / routine for the analysis, low for the stored risk level of a
\* chat message.
C14_FallsThroughToLowRoutine ==
  (pc = "done" /\ noEarlierRule) =>
    /\ Answered("searchDiseasesBySymptoms") => resp.urgencyLevel = "low"
    /\ (Answered("searchBySymptoms") /\ Len(resp.candidates) > 0) =>
         resp.candidates[1].urgencyLevel = "low"
    /\ req.kind = "analyzeMedicalQuery" =>
         resp.riskLevel = "low" /\ resp.urgencyLevel = "routine"
    /\ ChatAnsweredWithoutEmergency => conv.riskLevel = "low"

\* C14 amended: searchDiseasesBySymptoms answers low exactly when it returns
\* no candidate, and medium when it returns candidates none of which is
\* severe or emergency; the analysis is low / routine exactly when the
\* severity is at most 4 and medium / routine from 5 to 7; a candidate of
\* searchBySymptoms is low exactly when no emergency symptom is reported, its
\* disease is neither severe nor moderate nor of category emergency, and the
\* pain level is below 6 or absent.
C14_LowestLevelOfEachClassifier ==
  /\ Answered("searchDiseasesBySymptoms") =>
       /\ resp.urgencyLevel = "low" <=> Len(resp.candidates) = 0
       /\ resp.urgencyLevel = "medium" <=>
            /\ Len(resp.candidates) > 0
            /\ \A i \in 1..Len(resp.candidates) :
                 resp.candidates[i].severityLevel \notin {"severe", "emergency"}
  /\ (pc = "done" /\ req.kind = "analyzeMedicalQuery") =>
       /\ resp.urgencyLevel = "routine" <=> req.painLevel.v <= 7
       /\ resp.riskLevel = "low" <=> req.painLevel.v <= 4
       /\ resp.riskLevel = "medium" <=> req.painLevel.v \in 5..7
  /\ Answered("searchBySymptoms") =>
       \A i \in 1..Len(resp.candidates) :
         resp.candidates[i].urgencyLevel = "low" <=>
           /\ ~emergencySymptomOrPain
           /\ ~painAtLeast(6)
           /\ resp.candidates[i].severityLevel \notin {"severe", "moderate"}
           /\ resp.candidates[i].category # "emergency"

\* no earlier rule fires, every candidate is mild, and the answer is medium
C14_Witness ==
  /\ Answered("searchDiseasesBySymptoms")
  /\ noEarlierRule
  /\ Len(resp.candidates) > 0
  /\ \A i \in 1..Len(resp.candidates) : resp.candidates[i].severityLevel = "mild"
  /\ resp.urgencyLevel = "medium"

\* C15: every decision returned to the caller carries a list of
\* recommendations that is not empty: the suggested actions of a chat answer
\* on the emergency path, the AI path and the error path, the
\* recommendations of a search and those of an analysis.
C15_DecisionCarriesRecommendations ==
  /\ (ChatDone /\ resp.status = 200) => resp.suggestedActions # <<>>
  /\ Answered("searchDiseasesBySymptoms") => resp.recommendations # <<>>
  /\ (pc = "done" /\ req.kind = "analyzeMedicalQuery") =>
       resp.recommendations # <<>>

\* the request was sent twice and both times it was answered with a decision
BothAnswered ==
  /\ pc = "done"
  /\ previous.def
  /\ \/ req.kind = "analyzeMedicalQuery"
     \/ resp.status = 200 /\ previous.resp.status = 200

vomitandoSangreDone ==
  ChatDone /\ req.message = Str(M_vomitandoSangre)

dolorPechoDone ==
  /\ ChatDone
  /\ req.message = Str(M_dolorPecho)
  /\ req.userContext \in DocumentedContexts

\* C18: the documented emergency example is detected: the message 'Tengo
\* dolor severo en el pecho y dificultad para respirar' with pain level 10
\* and duration 'minutos' is answered with emergencyDetected = true and the
\* instruction to call 911.
C18_DocumentedExampleIsEmergency ==
  (dolorPechoDone /\ ~collaboratorFailed) =>
    /\ \/ resp.emergencyDetected
       \/ resp.kind = "emergency_error"
    /\ \/ "Llame al 911 inmediatamente" \in Range(resp.suggestedActions)
       \/ resp.kind = "emergency_error"

\* the non-emergency AI path of processMessage answered the chat message
aiPathAnswered == ChatDone /\ chatResponse.model = "gemini-pro"

\* b is the plural of a: both name the same symptom
pluralOf(a, b) == b = a \o <<"s">>

\* C19: a symptom is extracted if and only if one of its keyword variants
\* occurs in the lowercased text, and every symptom stands at most once in
\* the result, however many of its variants matched: no entry twice, and
\* never the singular and the plural of one symptom together.
C19_EachSymptomExtractedOnce ==
  aiPathAnswered =>
    /\ Range(chatResponse.symptomsExtracted) =
         phrasesIn(symptomKeywords, serviceMessage)
    /\ noDuplicates(chatResponse.symptomsExtracted)
    /\ \A i, j \in 1..Len(chatResponse.symptomsExtracted) :
         ~pluralOf(chatResponse.symptomsExtracted[i],
                   chatResponse.symptomsExtracted[j])

\* a disease of the table one of whose symptoms contains, or is contained
\* in, a symptom of the search without being equal to any of them
relatedByOverlapOnly(disease) ==
  /\ disease.isActive
  /\ \E k \in 1..Len(disease.symptoms), symptom \in searchedSymptoms :
       overlap(toLowerCase(disease.symptoms[k]), symptom)
  /\ \A k \in 1..Len(disease.symptoms) :
       disease.symptoms[k] \notin searchedSymptoms

\* C20: a search by a list of symptoms finds the related disease also when
\* a reported symptom equals no symptom of the table and only overlaps one
\* as a substring or superstring: the disease is among the candidates (as
\* long as the list is not cut at ten) with a positive matchScore.
C20_OverlapFindsRelatedDisease ==
  (Answered("searchDiseasesBySymptoms") /\ Len(resp.candidates) < TopResults) =>
    \A d \in 1..Len(catalog) :
      relatedByOverlapOnly(catalog[d]) =>
        \E i \in 1..Len(resp.candidates) :
          /\ resp.candidates[i].name = catalog[d].name
          /\ resp.candidates[i].matchScore.num > 0

\* an emergency was detected for the chat message of the request, by the
\* middleware or by the AI service
emergencyDetectedForChat ==
  /\ ChatDone
  /\ \/ "middlewareEmergency" \in Range(stages)
     \/ emergencyFound

\* C22: whenever an emergency is detected for a chat message, by the
\* emergency-detection middleware or by the AI service, the client receives
\* a response with status 200 that carries emergencyDetected = true and the
\* immediate actions, not an error response.
C22_EmergencyAnsweredWith200 ==
  emergencyDetectedForChat =>
    /\ resp.status = 200
    /\ resp.emergencyDetected
    /\ resp.suggestedActions # <<>>

\* the message of the chat request is a string sanitize does not throw on
sanitizeReturns ==
  /\ req.kind = "chat"
  /\ ~falsy(req.message)
  /\ req.message.type = "string"
  /\ ~sanitizeThrows(req.message.text)

\* C30: sanitize is idempotent: for every message on which it does not throw,
\* sanitizing the sanitized text again gives the same text, so the second
\* sanitization, done by the AI service, sees exactly the text the
\* controller validated.
C30_SanitizeIdempotent ==
  (sanitizeReturns /\ "detectEmergency" \in Range(stages)) =>
    /\ ~sanitizeThrows(chatRequestMessage)
    /\ serviceMessage = chatRequestMessage

\* the request stored its exchange over a conversation that an earlier
\* message of the session had marked as an emergency
savedOverEmergency ==
  /\ req.kind = "chat"
  /\ "saveConversation" \in Range(stages)
  /\ existing.exists
  /\ existing.emergencyDetected

\* C26: once a message of a session has been classified as an emergency, the
\* stored conversation keeps emergencyDetected = true and riskLevel =
\* emergency after every later message of the same session.
C26_EmergencyFlagIsKept ==
  savedOverEmergency =>
    /\ conv.emergencyDetected
    /\ conv.riskLevel = "emergency"

\* the connection's chat request has been evaluated by processMessage
evaluated(p) ==
  /\ calls[p].op = "sendMessage"
  /\ calls[p].chatResponse.present

\* the connection's chat request has been answered with status 200
succeeded(p) ==
  /\ calls[p].op = "sendMessage"
  /\ calls[p].pc = "done"
  /\ calls[p].resp.status = 200

expiredAtArrival(p) ==
  /\ calls[p].op # "none"
  /\ isExpired(calls[p].sessionId, calls[p].at)

\* C23: sessions expire after 24 hours: once more than 24 hours have passed
\* since a session id was made, the status route never reports the session as
\* active and no chat message is accepted under it any more.
C23_ExpiredSessionIsClosed ==
  \A p \in Procs :
    (calls[p].pc = "done" /\ expiredAtArrival(p)) =>
      /\ calls[p].op = "status" =>
           (calls[p].status.isExpired /\ ~calls[p].status.isActive)
      /\ calls[p].op = "sendMessage" => calls[p].resp.status # 200

\* the step is a run of the cleanup job
cleanupRan == cleaned'.runs = cleaned.runs + 1

\* the row is a conversation last active before the cutoff and not flagged
\* as an emergency
due(row, daysOld, time) ==
  /\ row.exists
  /\ row.lastActivity < time - daysOld * HoursPerDay
  /\ ~row.emergencyDetected

\* C25: cleanupOldConversations(daysOld) deletes exactly the conversations
\* whose lastActivity is older than the cutoff and whose emergencyDetected
\* flag is false: every such row is gone afterwards, every other row (one
\* flagged as an emergency, one active within the last daysOld days) is left
\* as it was, and the count returned is the number of rows deleted.
C25_CleanupDeletesExactlyDue ==
  [][cleanupRan =>
       /\ \A s \in SessionIds :
            IF due(table[s], cleaned'.daysOld, now)
            THEN ~table'[s].exists
            ELSE table'[s] = table[s]
       /\ cleaned'.count =
            Cardinality({ s \in SessionIds : due(table[s], cleaned'.daysOld, now) })
    ]_vars

\* the cleanup deleted a conversation and left one that is as old but
\* flagged as an emergency
C25_Witness ==
  /\ cleaned.runs > 0
  /\ cleaned.count > 0
  /\ \E s \in SessionIds :
       /\ table[s].exists
       /\ table[s].emergencyDetected
       /\ table[s].lastActivity < now - cleaned.daysOld * HoursPerDay

\* every message of part is among messages
containsAll(messages, part) ==
  \A i \in 1..Len(part) : \E j \in 1..Len(messages) : messages[j] = part[i]

\* C27: when two sendMessage requests of one session are handled
\* concurrently and both succeed, the stored conversation afterwards holds
\* the user and the assistant message of both requests and all the earlier
\* messages (no row being deleted by the cleanup meanwhile).
C27_NoExchangeLost ==
  \A p, q \in Procs :
    ( /\ p # q
      /\ succeeded(p) /\ succeeded(q)
      /\ calls[p].sessionId = calls[q].sessionId
      /\ cleaned.runs = 0 )
    => LET messages == table[calls[p].sessionId].messages
       IN  /\ containsAll(messages, exchange(calls[p].request))
           /\ containsAll(messages, exchange(calls[q].request))
           /\ containsAll(messages, calls[p].existing.messages)
           /\ containsAll(messages, calls[q].existing.messages)

\* the conversation was ended with status 200 by the request of the
\* connection
endedBy(p) ==
  /\ calls[p].op = "endConversation"
  /\ calls[p].pc = "done"
  /\ calls[p].resp.status = 200

\* C28 as stated: once a conversation has been ended through
\* endConversation, no later operation on the session sets isActive back to
\* true: the session has no active conversation any more.
C28_EndedSessionStaysInactive ==
  \A p \in Procs :
    endedBy(p) =>
      ~(table[calls[p].sessionId].exists /\ table[calls[p].sessionId].isActive)

\* C28, amended: a conversation that has been ended stays inactive for as
\* long as its row is in the table: no step (of a sendMessage, of another
\* endConversation, of a status or history query) sets isActive of an
\* inactive row back to true. A sendMessage after the cleanup has deleted the
\* row creates a new, active conversation for the session.
C28_InactiveRowStaysInactive ==
  [][\A s \in SessionIds :
       (table[s].exists /\ ~table[s].isActive /\ table'[s].exists)
         => ~table'[s].isActive]_vars

\* a chat request read the ended conversation, stored its exchange over it
\* and was answered, and the conversation is still inactive
C28_Witness ==
  \E p \in Procs :
    /\ succeeded(p)
    /\ calls[p].existing.exists
    /\ ~calls[p].existing.isActive
    /\ containsAll(table[calls[p].sessionId].messages, exchange(calls[p].request))
    /\ ~table[calls[p].sessionId].isActive

\* the pairs of a disease and a symptom the list of relations names
relationPairs ==
  UNION { { <<diseaseSymptomRelations[i].diseaseName,
               diseaseSymptomRelations[i].symptoms[j]>> :
              j \in DOMAIN diseaseSymptomRelations[i].symptoms } :
          i \in DOMAIN diseaseSymptomRelations }

\* the seeding logged an entry of the level about the names
logged(level, about) ==
  \E k \in 1..Len(seedLog) : seedLog[k] = [level |-> level, about |-> about]

\* C24: loading the disease-symptom relations never fails because of bad
\* reference data: the seeding never ends with an error thrown, a relation
\* that names an unknown disease or an unknown symptom is skipped with a
\* logged warning, and every other relation of the list is created (unless
\* its own create call failed, which is logged as an error).
C24_BadReferencesAreSkipped ==
  /\ seedAt.pc # "threw"
  /\ seedAt.pc = "done" =>
       \A pair \in relationPairs :
         IF pair[1] \notin seededDiseases
         THEN /\ pair \notin Range(createdRelations)
              /\ logged("warn", <<pair[1]>>)
         ELSE IF pair[2] \notin seededSymptoms
         THEN /\ pair \notin Range(createdRelations)
              /\ logged("warn", <<pair[2]>>)
         ELSE pair \in Range(createdRelations) \/ logged("error", pair)

\* the seeding is over: the first disease of the list was unknown, a symptom
\* of the second was unknown, and the relations after them were created
C24_Witness ==
  /\ seedAt.pc = "done"
  /\ diseaseSymptomRelations[1].diseaseName \notin seededDiseases
  /\ diseaseSymptomRelations[2].diseaseName \in seededDiseases
  /\ diseaseSymptomRelations[2].symptoms[1] \notin seededSymptoms
  /\ <<diseaseSymptomRelations[2].diseaseName,
       diseaseSymptomRelations[2].symptoms[2]>> \in Range(createdRelations)
  /\ <<diseaseSymptomRelations[3].diseaseName,
       diseaseSymptomRelations[3].symptoms[1]>> \in Range(createdRelations)

\* C29: when a call of startNewSession completes successfully, the current
\* session of the chat store is the session the call created and the list of
\* messages is empty, so that the chat interface is not initializing any more
C29_StartedSessionIsCurrent ==
  [][\A i \in 1..MaxStarts, outcome \in CreateSessionOutcomes :
       (CreateChatSessionReturns(i, outcome) /\ outcome.success)
         => /\ chatStore'.currentSession = outcome.data
            /\ chatStore'.messages = <<>>
            /\ ~initializing']_vars
====
